---- MODULE Spec2Model ----
(***************************************************************************)
(* goYoutube: the playlist pagination walker (cmd/newClient/newClient.go), *)
(* the collection crawler, the worker pool and the format selector of the  *)
(* download command (cmd/download.go).                                     *)
(*                                                                         *)
(* Strings are sequences of symbols; the Go empty string "" is <<>>.       *)
(* A symbol is one character ("7", "p", "/") or an opaque chunk of         *)
(* characters no operation looks into ("v1", "T1").                        *)
(***************************************************************************)
EXTENDS Integers, Sequences, FiniteSets, TLC

VARIABLES
  inputURL,     \* flag --url
  concurrency,  \* flag --concurrency
  skipExisting, \* flag --skip-existing
  remote,       \* the browse endpoint: the chain of pages it serves
  fs,           \* the filesystem: what is at each destination path
  pc,           \* where runDownload is
  ret,          \* what runDownload returned: "none" (not yet), "nil", "err"
  all,          \* fetchAllPlaylistEntries: the accumulator
  pageToken,    \* fetchAllPlaylistEntries: the token of the next request
  requests,     \* the tokens of the page requests sent so far
  entries,      \* runDownload: the list fetchAllPlaylistEntries returned
  ch,           \* the buffered channel, closed once filled
  wg,           \* the WaitGroup counter
  spawned,      \* the number of worker goroutines started
  wpc,          \* where each worker goroutine is
  witem,        \* the item each worker holds
  log,          \* per queue position: what happened to the item
  fnIn,         \* the argument of the pure function a specification applies
  fnOut,        \* its result; NotApplied until it has been applied
  runs          \* what each earlier run of the command on this filesystem did

vars == <<inputURL, concurrency, skipExisting, remote, fs, pc, ret, all, pageToken,
          requests, entries, ch, wg, spawned, wpc, witem, log, fnIn, fnOut, runs>>

progVars == <<inputURL, concurrency, skipExisting, remote, fs, pc, ret, all, pageToken,
              requests, entries, ch, wg, spawned, wpc, witem, log, runs>>

ES == <<>>

\* No pure function is being applied / none has been applied yet.
NotApplied == [fn |-> "none"]

\* All sequences over S of length at most n.
SeqUpTo(S, n) == UNION {[1..k -> S] : k \in 0..n}

(***************************************************************************)
(* JSON values, as encoding/json sees a response body.                     *)
(***************************************************************************)
JNull == [t |-> "null"]

JNum == [t |-> "num"]

JStr(s) == [t |-> "str", s |-> s]

JArr(a) == [t |-> "arr", a |-> a]

\* An object: its members in document order, each a name and a value; a
\* name can occur more than once.
Member(k, v) == [k |-> k, v |-> v]

JObj(m) == [t |-> "obj", m |-> m]

\* An object with no member.
JEmptyObj == [t |-> "obj", m |-> <<>>]

\* A body that is not JSON text at all.
JInvalid == [t |-> "invalid"]

\* The Go types of the struct `root` that the body is decoded into.  A struct
\* type gives, for each Go field name, the name in the field's json tag,
\* character by character, and the field's type.
TString == [k |-> "string"]

TList(elem) == [k |-> "list", elem |-> elem]

TStruct(fields) == [k |-> "struct", fields |-> fields]

Tagged(tag, ty) == [tag |-> tag, ty |-> ty]

VideoRendererType ==
  TStruct([VideoID |-> Tagged(<< "v", "i", "d", "e", "o", "I", "d" >>, TString),
           Title |-> Tagged(<< "t", "i", "t", "l", "e" >>,
             TStruct([SimpleText |-> Tagged(<< "s", "i", "m", "p", "l", "e", "T",
                                               "e", "x", "t" >>,
                                            TString)]))])

ItemType ==
  TStruct([PlaylistVideoRenderer |->
    Tagged(<< "p", "l", "a", "y", "l", "i", "s", "t", "V", "i", "d", "e", "o", "R",
              "e", "n", "d", "e", "r", "e", "r" >>,
           VideoRendererType)])

ContinuationType ==
  TStruct([NextContinuationData |->
    Tagged(<< "n", "e", "x", "t", "C", "o", "n", "t", "i", "n", "u", "a", "t", "i",
              "o", "n", "D", "a", "t", "a" >>,
           TStruct([Continuation |->
             Tagged(<< "c", "o", "n", "t", "i", "n", "u", "a", "t", "i", "o", "n" >>,
                    TString)]))])

VideoListType ==
  TStruct([Contents |-> Tagged(<< "c", "o", "n", "t", "e", "n", "t", "s" >>, TList(ItemType)),
           Continuations |->
             Tagged(<< "c", "o", "n", "t", "i", "n", "u", "a", "t", "i", "o", "n", "s" >>,
                    TList(ContinuationType))])

BlockType ==
  TStruct([PlaylistVideoListRenderer |->
    Tagged(<< "p", "l", "a", "y", "l", "i", "s", "t", "V", "i", "d", "e", "o", "L",
              "i", "s", "t", "R", "e", "n", "d", "e", "r", "e", "r" >>,
           VideoListType)])

SectionType ==
  TStruct([ItemSectionRenderer |->
    Tagged(<< "i", "t", "e", "m", "S", "e", "c", "t", "i", "o", "n", "R", "e", "n",
              "d", "e", "r", "e", "r" >>,
           TStruct([Contents |-> Tagged(<< "c", "o", "n", "t", "e", "n", "t", "s" >>,
                                        TList(BlockType))]))])

TabType ==
  TStruct([TabRenderer |->
    Tagged(<< "t", "a", "b", "R", "e", "n", "d", "e", "r", "e", "r" >>,
      TStruct([Content |->
        Tagged(<< "c", "o", "n", "t", "e", "n", "t" >>,
          TStruct([SectionListRenderer |->
            Tagged(<< "s", "e", "c", "t", "i", "o", "n", "L", "i", "s", "t", "R",
                      "e", "n", "d", "e", "r", "e", "r" >>,
              TStruct([Contents |-> Tagged(<< "c", "o", "n", "t", "e", "n", "t", "s" >>,
                                           TList(SectionType))]))]))]))])

FirstPageType ==
  TStruct([TwoColumnBrowseResultsRenderer |->
    Tagged(<< "t", "w", "o", "C", "o", "l", "u", "m", "n", "B", "r", "o", "w", "s",
              "e", "R", "e", "s", "u", "l", "t", "s", "R", "e", "n", "d", "e", "r",
              "e", "r" >>,
           TStruct([Tabs |-> Tagged(<< "t", "a", "b", "s" >>, TList(TabType))]))])

ContinuationContentsType ==
  TStruct([PlaylistVideoListContinuation |->
    Tagged(<< "p", "l", "a", "y", "l", "i", "s", "t", "V", "i", "d", "e", "o", "L",
              "i", "s", "t", "C", "o", "n", "t", "i", "n", "u", "a", "t", "i", "o",
              "n" >>,
           VideoListType)])

RootType ==
  TStruct([ContinuationContents |->
             Tagged(<< "c", "o", "n", "t", "i", "n", "u", "a", "t", "i", "o", "n",
                       "C", "o", "n", "t", "e", "n", "t", "s" >>,
                    ContinuationContentsType),
           Contents |-> Tagged(<< "c", "o", "n", "t", "e", "n", "t", "s" >>, FirstPageType)])

\* The json name of a field.
TagOf(ty, field) == ty.fields[field].tag

\* A Go slice is its length and its backing array, which can hold elements
\* beyond the length; the nil slice has neither.
NilSlice == [len |-> 0, arr |-> <<>>]

\* The zero value of a Go type: "", the nil slice, the struct of zero fields.
RECURSIVE ZeroOf(_)
ZeroOf(ty) ==
  IF ty.k = "string" THEN ES
  ELSE IF ty.k = "list" THEN NilSlice
  ELSE [n \in DOMAIN ty.fields |-> ZeroOf(ty.fields[n].ty)]

\* Unicode simple case folding on the characters of a member name: the ASCII
\* letters, and the two other characters that fold to an ASCII letter, the
\* long s U+017F and the Kelvin sign U+212A, written by their code points.
UpperCase ==
  << "A", "B", "C", "D", "E", "F", "G", "H", "I", "J", "K", "L", "M",
     "N", "O", "P", "Q", "R", "S", "T", "U", "V", "W", "X", "Y", "Z" >>

LowerCase ==
  << "a", "b", "c", "d", "e", "f", "g", "h", "i", "j", "k", "l", "m",
     "n", "o", "p", "q", "r", "s", "t", "u", "v", "w", "x", "y", "z" >>

FoldRune(c) ==
  IF \E i \in DOMAIN UpperCase : UpperCase[i] = c
  THEN LowerCase[CHOOSE i \in DOMAIN UpperCase : UpperCase[i] = c]
  ELSE IF c = "U+017F" THEN "s"
  ELSE IF c = "U+212A" THEN "k"
  ELSE c

EqualFold(s, t) ==
  Len(s) = Len(t) /\ \A i \in DOMAIN s : FoldRune(s[i]) = FoldRune(t[i])

\* The struct field a member name is decoded into: the field whose json name
\* is the member name exactly, else the one whose json name equals it under
\* case folding; none for an unknown member.
FieldsFor(ty, key) ==
  LET exact == { n \in DOMAIN ty.fields : ty.fields[n].tag = key }
  IN IF exact # {} THEN exact
     ELSE { n \in DOMAIN ty.fields : EqualFold(ty.fields[n].tag, key) }

\* json.Unmarshal accepts v for a destination of type ty: null is accepted
\* by every destination, unknown members are ignored whatever their value,
\* and a value of another JSON kind than the destination's is an
\* UnmarshalTypeError, which the decoder keeps and returns at the end.
RECURSIVE Decodes(_, _)
Decodes(v, ty) ==
  IF v.t = "null" THEN TRUE
  ELSE IF ty.k = "string" THEN v.t = "str"
  ELSE IF ty.k = "list" THEN
    v.t = "arr" /\ \A i \in DOMAIN v.a : Decodes(v.a[i], ty.elem)
  ELSE
    v.t = "obj" /\ \A i \in DOMAIN v.m :
                      \A n \in FieldsFor(ty, v.m[i].k) :
                        Decodes(v.m[i].v, ty.fields[n].ty)

\* err != nil of json.Unmarshal(jsonData, &root).
UnmarshalFails(jsonData) ==
  jsonData.t = "invalid" \/ ~Decodes(jsonData, RootType)

\* The decoder stores v into a destination of type ty that holds cur.  null
\* sets a slice to nil and leaves a string or a struct as it is.  An object
\* is stored member by member, in document order, into the fields the struct
\* already holds, so a later member of the same field is stored over the
\* earlier one.  An array is stored element by element into the elements the
\* backing array already holds, the length set to the number of elements; an
\* empty array gives a new empty slice.
RECURSIVE DecodeInto(_, _, _)
RECURSIVE DecodeMembers(_, _, _)
RECURSIVE DecodeArray(_, _, _)
DecodeInto(cur, v, ty) ==
  IF v.t = "null" THEN (IF ty.k = "list" THEN NilSlice ELSE cur)
  ELSE IF ty.k = "string" THEN (IF v.t = "str" THEN v.s ELSE cur)
  ELSE IF ty.k = "list" THEN (IF v.t = "arr" THEN DecodeArray(cur, v.a, ty.elem) ELSE cur)
  ELSE IF v.t = "obj" THEN DecodeMembers(cur, v.m, ty) ELSE cur

DecodeMembers(cur, members, ty) ==
  IF members = <<>> THEN cur
  ELSE LET m == Head(members)
           found == FieldsFor(ty, m.k)
           n == CHOOSE x \in found : TRUE
       IN DecodeMembers(
            IF found = {} THEN cur
            ELSE [cur EXCEPT ![n] = DecodeInto(cur[n], m.v, ty.fields[n].ty)],
            Tail(members), ty)

DecodeArray(cur, elems, elemTy) ==
  IF elems = <<>> THEN NilSlice
  ELSE LET n == IF Len(cur.arr) > Len(elems) THEN Len(cur.arr) ELSE Len(elems)
       IN [len |-> Len(elems),
           arr |-> [i \in 1..n |->
                      IF i > Len(elems) THEN cur.arr[i]
                      ELSE DecodeInto(IF i <= Len(cur.arr) THEN cur.arr[i]
                                      ELSE ZeroOf(elemTy),
                                      elems[i], elemTy)]]

\* root after json.Unmarshal(jsonData, &root) returned nil.
Unmarshal(jsonData) == DecodeInto(ZeroOf(RootType), jsonData, RootType)

\* The elements of a slice: for _, x := range s, len(s).
Slice(s) == SubSeq(s.arr, 1, s.len)

\* item.PlaylistVideoRenderer.VideoID and .Title.SimpleText
VideoID(item) == item.PlaylistVideoRenderer.VideoID

SimpleText(item) == item.PlaylistVideoRenderer.Title.SimpleText

\* cont.NextContinuationData.Continuation
Continuation(cont) == cont.NextContinuationData.Continuation

\* The loop over a Contents list: entries with an empty videoId are skipped,
\* the others appended in order.
RECURSIVE AppendEntriesMutKeepsAll(_, _)
AppendEntriesMutKeepsAll(outEntries, contents) ==
  IF contents = <<>> THEN outEntries
  ELSE AppendEntriesMutKeepsAll(
         Append(outEntries, [ID |-> VideoID(Head(contents)),
                             Title |-> SimpleText(Head(contents))]),
         Tail(contents))

RECURSIVE AppendEntries(_, _)
AppendEntries(outEntries, contents) ==
  IF contents = <<>> THEN outEntries
  ELSE LET item == Head(contents)
           vid == VideoID(item)
       IN AppendEntries(IF vid = ES THEN outEntries
                        ELSE Append(outEntries, [ID |-> vid, Title |-> SimpleText(item)]),
                        Tail(contents))

\* The loop over a Continuations list: the first non-empty continuation is
\* assigned to out.NextPageToken and the loop breaks; with none, the token is
\* left as it was.
RECURSIVE NextToken(_, _)
NextToken(token, continuations) ==
  IF continuations = <<>> THEN token
  ELSE IF Continuation(Head(continuations)) # ES
       THEN Continuation(Head(continuations))
       ELSE NextToken(token, Tail(continuations))

\* One playlistVideoListRenderer (or the continuation list): its entries are
\* appended to out, then its token loop runs on out.NextPageToken.
ParseVideoList(out, list) ==
  [Entries |-> AppendEntries(out.Entries, Slice(list.Contents)),
   NextPageToken |-> NextToken(out.NextPageToken, Slice(list.Continuations))]

\* for _, c := range list
RECURSIVE ParseBlocks(_, _)
ParseBlocks(out, list) ==
  IF list = <<>> THEN out
  ELSE ParseBlocks(ParseVideoList(out, Head(list).PlaylistVideoListRenderer),
                   Tail(list))

\* for _, section := range sections
RECURSIVE ParseSections(_, _)
ParseSections(out, sections) ==
  IF sections = <<>> THEN out
  ELSE ParseSections(
         ParseBlocks(out, Slice(Head(sections).ItemSectionRenderer.Contents)),
         Tail(sections))

\* for _, tab := range tabs
RECURSIVE ParseTabs(_, _)
ParseTabs(out, tabs) ==
  IF tabs = <<>> THEN out
  ELSE ParseTabs(
         ParseSections(out,
           Slice(Head(tabs).TabRenderer.Content.SectionListRenderer.Contents)),
         Tail(tabs))

ZeroPaged == [Entries |-> <<>>, NextPageToken |-> ES]

\* root.ContinuationContents.PlaylistVideoListContinuation
ContinuationList(root) == root.ContinuationContents.PlaylistVideoListContinuation

\* root.Contents.TwoColumnBrowseResultsRenderer.Tabs
FirstPageTabs(root) == Slice(root.Contents.TwoColumnBrowseResultsRenderer.Tabs)

\* The body of parsePlaylistJSON after a successful decode.
ParseRootMutShapeByPresence(root) ==
  IF ContinuationList(root) # ZeroOf(VideoListType)
  THEN [err |-> FALSE, paged |-> ParseVideoList(ZeroPaged, ContinuationList(root))]
  ELSE [err |-> FALSE, paged |-> ParseTabs(ZeroPaged, FirstPageTabs(root))]

ParseRoot(root) ==
  IF Len(Slice(ContinuationList(root).Contents)) > 0
  THEN [err |-> FALSE, paged |-> ParseVideoList(ZeroPaged, ContinuationList(root))]
  ELSE [err |-> FALSE, paged |-> ParseTabs(ZeroPaged, FirstPageTabs(root))]

\* parsePlaylistJSON: (nil, err) when the decode fails, else (&out, nil).
parsePlaylistJSON(jsonData) ==
  IF UnmarshalFails(jsonData)
  THEN [err |-> TRUE, paged |-> ZeroPaged]
  ELSE ParseRoot(Unmarshal(jsonData))

(***************************************************************************)
(* Response bodies the parser is applied to.                               *)
(***************************************************************************)
T1 == <<"T1">>

T2 == <<"T2">>

\* An object with one member.
One(tag, v) == JObj(<< Member(tag, v) >>)

ItemJSON(vid, title) ==
  One(TagOf(ItemType, "PlaylistVideoRenderer"),
      JObj(<< Member(TagOf(VideoRendererType, "VideoID"), JStr(vid)),
              Member(TagOf(VideoRendererType, "Title"),
                     One(TagOf(VideoRendererType.fields.Title.ty, "SimpleText"),
                         JStr(title))) >>))

\* An item that has a videoId and no title.
UntitledItemJSON(vid) ==
  One(TagOf(ItemType, "PlaylistVideoRenderer"),
      One(TagOf(VideoRendererType, "VideoID"), JStr(vid)))

ContJSON(token) ==
  One(TagOf(ContinuationType, "NextContinuationData"),
      One(TagOf(ContinuationType.fields.NextContinuationData.ty, "Continuation"),
          JStr(token)))

VideoListJSON(contents, continuations) ==
  JObj(<< Member(TagOf(VideoListType, "Contents"), JArr(contents)),
          Member(TagOf(VideoListType, "Continuations"), JArr(continuations)) >>)

BlockJSON(list) == One(TagOf(BlockType, "PlaylistVideoListRenderer"), list)

SectionJSON(blocks) ==
  One(TagOf(SectionType, "ItemSectionRenderer"),
      One(TagOf(SectionType.fields.ItemSectionRenderer.ty, "Contents"), JArr(blocks)))

TabJSON(sections) ==
  LET contentTy == TabType.fields.TabRenderer.ty
      listTy == contentTy.fields.Content.ty
  IN One(TagOf(TabType, "TabRenderer"),
         One(TagOf(contentTy, "Content"),
             One(TagOf(listTy, "SectionListRenderer"),
                 One(TagOf(listTy.fields.SectionListRenderer.ty, "Contents"),
                     JArr(sections)))))

FirstPageMember(tabs) ==
  One(TagOf(FirstPageType, "TwoColumnBrowseResultsRenderer"),
      One(TagOf(FirstPageType.fields.TwoColumnBrowseResultsRenderer.ty, "Tabs"),
          JArr(tabs)))

ContinuationMember(list) ==
  One(TagOf(ContinuationContentsType, "PlaylistVideoListContinuation"), list)

\* A first-page response, a continuation response, and one with both members.
FirstPageJSON(tabs) == One(TagOf(RootType, "Contents"), FirstPageMember(tabs))

ContinuationJSON(list) ==
  One(TagOf(RootType, "ContinuationContents"), ContinuationMember(list))

BothJSON(list, tabs) ==
  JObj(<< Member(TagOf(RootType, "ContinuationContents"), ContinuationMember(list)),
          Member(TagOf(RootType, "Contents"), FirstPageMember(tabs)) >>)

\* Two blocks in one section, in two sections of one tab, in two tabs.
TwoBlockTabs(b1, b2) ==
  { << TabJSON(<< SectionJSON(<< BlockJSON(b1), BlockJSON(b2) >>) >>) >>,
    << TabJSON(<< SectionJSON(<< BlockJSON(b1) >>), SectionJSON(<< BlockJSON(b2) >>) >>) >>,
    << TabJSON(<< SectionJSON(<< BlockJSON(b1) >>) >>),
       TabJSON(<< SectionJSON(<< BlockJSON(b2) >>) >>) >> }

OneBlockTabs(b) == << TabJSON(<< SectionJSON(<< BlockJSON(b) >>) >>) >>

(***************************************************************************)
(* Format selection (downloadSingleVideo) and parseRes.                    *)
(***************************************************************************)
Digits == {"0", "1", "2", "3", "4", "5", "6", "7", "8", "9"}

DigitVal(c) ==
  CASE c = "0" -> 0 [] c = "1" -> 1 [] c = "2" -> 2 [] c = "3" -> 3 [] c = "4" -> 4
    [] c = "5" -> 5 [] c = "6" -> 6 [] c = "7" -> 7 [] c = "8" -> 8 [] c = "9" -> 9

\* strings.TrimSuffix(s, suffix) for a one-character suffix.
TrimSuffix(s, c) ==
  IF Len(s) > 0 /\ s[Len(s)] = c THEN SubSeq(s, 1, Len(s) - 1) ELSE s

\* A Go int (64 bits, as on the platforms the command is built for) is its
\* sign and its decimal digits without leading zeros; 0 has no digits.
GoInt(neg, mag) == [neg |-> neg /\ mag # <<>>, mag |-> mag]

Zero == [neg |-> FALSE, mag |-> <<>>]

RECURSIVE StripZeros(_)
StripZeros(s) == IF s # <<>> /\ Head(s) = "0" THEN StripZeros(Tail(s)) ELSE s

\* a < b for two magnitudes: the shorter, or the first differing digit.
MagLess(a, b) ==
  \/ Len(a) < Len(b)
  \/ /\ Len(a) = Len(b)
     /\ \E i \in DOMAIN a :
          /\ DigitVal(a[i]) < DigitVal(b[i])
          /\ \A j \in 1..(i - 1) : a[j] = b[j]

\* x < y and x > y on Go ints.
IntLess(x, y) ==
  IF x.neg /\ ~y.neg THEN TRUE
  ELSE IF ~x.neg /\ y.neg THEN FALSE
  ELSE IF x.neg THEN MagLess(y.mag, x.mag)
  ELSE MagLess(x.mag, y.mag)

IntGreater(x, y) == IntLess(y, x)

\* 1<<63 - 1 and 1<<63.
MaxInt64Mag ==
  << "9", "2", "2", "3", "3", "7", "2", "0", "3", "6", "8", "5", "4", "7", "7", "5",
     "8", "0", "7" >>

MinInt64Mag ==
  << "9", "2", "2", "3", "3", "7", "2", "0", "3", "6", "8", "5", "4", "7", "7", "5",
     "8", "0", "8" >>

\* 1<<64 - 1.
MaxUint64Mag ==
  << "1", "8", "4", "4", "6", "7", "4", "4", "0", "7", "3", "7", "0", "9", "5", "5",
     "1", "6", "1", "5" >>

\* The loop of strconv.ParseUint(s, 10, 0) from character i on, n being the
\* value read so far: a character that is no digit is a syntax error with
\* the value 0; a digit with which the value passes 1<<64 - 1 is a range
\* error with that value, and what follows it is not read.
RECURSIVE ParseUintFrom(_, _, _)
ParseUintFrom(s, i, n) ==
  IF i > Len(s) THEN [mag |-> n, err |-> "none"]
  ELSE IF s[i] \notin Digits THEN [mag |-> <<>>, err |-> "syntax"]
  ELSE IF MagLess(MaxUint64Mag, StripZeros(Append(n, s[i])))
       THEN [mag |-> MaxUint64Mag, err |-> "range"]
       ELSE ParseUintFrom(s, i + 1, StripZeros(Append(n, s[i])))

ParseUint(s) ==
  IF s = <<>> THEN [mag |-> <<>>, err |-> "syntax"] ELSE ParseUintFrom(s, 1, <<>>)

\* strconv.ParseInt(s, 10, 0): the sign is taken off and the rest read by
\* ParseUint; its syntax error is returned with the value 0; a value that
\* does not fit an int of that sign, ParseUint's range error included, is a
\* range error with the largest int of that sign.
ParseInt(s) ==
  IF s = <<>> THEN [val |-> Zero, err |-> "syntax"]
  ELSE LET neg == s[1] = "-"
           un == ParseUint(IF s[1] \in {"+", "-"} THEN Tail(s) ELSE s)
       IN IF un.err = "syntax" THEN [val |-> Zero, err |-> "syntax"]
          ELSE IF ~neg /\ ~MagLess(un.mag, MinInt64Mag)
          THEN [val |-> GoInt(FALSE, MaxInt64Mag), err |-> "range"]
          ELSE IF neg /\ MagLess(MinInt64Mag, un.mag)
          THEN [val |-> GoInt(TRUE, MinInt64Mag), err |-> "range"]
          ELSE [val |-> GoInt(neg, un.mag), err |-> "none"]

\* strconv.Atoi(s).  Up to 18 characters (of one byte each, as in every
\* label here) it reads an optional sign and the digits itself, and any
\* other character is a syntax error with the value 0; the empty string and
\* longer ones go through ParseInt.
Atoi(s) ==
  IF 0 < Len(s) /\ Len(s) < 19
  THEN LET body == IF s[1] \in {"-", "+"} THEN Tail(s) ELSE s
       IN IF body = <<>> \/ \E i \in DOMAIN body : body[i] \notin Digits
          THEN [val |-> Zero, err |-> "syntax"]
          ELSE [val |-> GoInt(s[1] = "-", StripZeros(body)), err |-> "none"]
  ELSE ParseInt(s)

\* val, _ := strconv.Atoi(label); return val
parseRes(label) == Atoi(TrimSuffix(label, "p")).val

\* The condition under which the loop assigns best = f; best is an index into
\* vid.Formats, 0 for nil.
TakesOverMutTies(formats, best, i) ==
  /\ formats[i].AudioChannels > 0
  /\ formats[i].QualityLabel # ES
  /\ (best = 0 \/ ~IntLess(parseRes(formats[i].QualityLabel),
                             parseRes(formats[best].QualityLabel)))

TakesOver(formats, best, i) ==
  /\ formats[i].AudioChannels > 0
  /\ formats[i].QualityLabel # ES
  /\ (best = 0 \/ IntGreater(parseRes(formats[i].QualityLabel),
                               parseRes(formats[best].QualityLabel)))

\* for i := range vid.Formats, from index i on with the best so far.
RECURSIVE BestFrom(_, _, _)
BestFrom(formats, best, i) ==
  IF i > Len(formats) THEN best
  ELSE BestFrom(formats, IF TakesOver(formats, best, i) THEN i ELSE best, i + 1)

\* The selection of downloadSingleVideo: the chosen index, or the
\* "no progressive format with audio found" error when best == nil.
SelectBest(formats) ==
  LET best == BestFrom(formats, 0, 1)
  IN [err |-> best = 0, best |-> best]

(***************************************************************************)
(* The download command: helpers.                                          *)
(***************************************************************************)
\* strings.Contains(u, "list="), on URLs in which "list=" is one symbol.
isPlaylist(u) == \E i \in DOMAIN u : u[i] = "list="

\* strings.ReplaceAll(s, old, new) for one-character old and new.
ReplaceAll(s, old, new) == [i \in DOMAIN s |-> IF s[i] = old THEN new ELSE s[i]]

\* unicode.IsSpace: the characters strings.TrimSpace removes.  Those that
\* have no escape are written by their code points.
WhiteSpace ==
  { " ", "\t", "\n", "\f", "\r", "U+000B", "U+0085", "U+00A0", "U+1680",
    "U+2000", "U+2001", "U+2002", "U+2003", "U+2004", "U+2005", "U+2006",
    "U+2007", "U+2008", "U+2009", "U+200A", "U+2028", "U+2029", "U+202F",
    "U+205F", "U+3000" }

\* strings.TrimSpace: s from its first to its last character that is not
\* white space; "" when it has none.
TrimSpace(s) ==
  LET kept == { i \in DOMAIN s : s[i] \notin WhiteSpace }
  IN IF kept = {} THEN ES
     ELSE SubSeq(s, CHOOSE i \in kept : \A j \in kept : i <= j,
                    CHOOSE i \in kept : \A j \in kept : j <= i)

sanitizeFilename(s) == TrimSpace(ReplaceAll(ReplaceAll(s, "/", "_"), "\\", "_"))

\* Paths are strings with the separator "/" of the systems whose separator
\* it is.  A chunk symbol ("downloads", ".mp4") holds no separator and is
\* not a dot.
\* F of the value of e, with e evaluated once.
Once(e, F(_)) == CHOOSE r \in { F(x) : x \in {e} } : TRUE

\* strings.Join(elems, "/")
RECURSIVE JoinSep(_)
JoinSep(elems) ==
  IF elems = <<>> THEN ES
  ELSE IF Len(elems) = 1 THEN Head(elems)
  ELSE Head(elems) \o <<"/">> \o JoinSep(Tail(elems))

\* The positions at which the names between the separators of a path begin;
\* a name is empty when a separator or the end of the path is there.
NameStarts(path) == { i \in 1..(Len(path) + 1) : i = 1 \/ path[i - 1] = "/" }

\* The name that begins at position i: up to the next separator or the end.
NameAt(path, i) ==
  LET rest == { j \in i..Len(path) : path[j] = "/" }
      end == IF rest = {} THEN Len(path) + 1
             ELSE CHOOSE j \in rest : \A k \in rest : j <= k
  IN SubSeq(path, i, end - 1)

\* The names of a path in order, empty ones included.
Split(path) ==
  Once(NameStarts(path), LAMBDA starts :
    [n \in 1..Cardinality(starts) |->
       NameAt(path, CHOOSE i \in starts : Cardinality({ j \in starts : j < i }) = n - 1)])

\* filepath.Clean, name by name: empty names and "." are dropped; ".." drops
\* the name before it, is dropped at the root, and is kept at the start of a
\* path that is not rooted.
CleanName(kept, name, rooted) ==
  IF name = ES \/ name = << "." >> THEN kept
  ELSE IF name = << ".", "." >>
       THEN IF kept # <<>> /\ kept[Len(kept)] # << ".", "." >>
            THEN SubSeq(kept, 1, Len(kept) - 1)
            ELSE IF rooted THEN kept ELSE Append(kept, name)
       ELSE Append(kept, name)

\* The names kept of the first n names.
RECURSIVE CleanNames(_, _, _)
CleanNames(names, n, rooted) ==
  IF n = 0 THEN <<>>
  ELSE Once(CleanNames(names, n - 1, rooted),
            LAMBDA kept : CleanName(kept, names[n], rooted))

\* The cleaned path of the names kept: "." when none is kept of a path that
\* is not rooted.
Cleaned(kept, rooted) ==
  IF rooted THEN <<"/">> \o JoinSep(kept)
  ELSE IF kept = <<>> THEN << "." >>
  ELSE JoinSep(kept)

\* filepath.Clean: a path is rooted when it begins with the separator.
Clean(path) ==
  Once(path, LAMBDA p :
    Once(Split(p), LAMBDA names :
      Once(CleanNames(names, Len(names), p # <<>> /\ Head(p) = "/"), LAMBDA kept :
        Cleaned(kept, p # <<>> /\ Head(p) = "/"))))

\* filepath.Join: the empty elements are ignored, the others joined with the
\* separator and the result cleaned; with no element left, "".
Join(elems) ==
  Once(SelectSeq(elems, LAMBDA e : e # ES), LAMBDA given :
    IF given = <<>> THEN ES ELSE Clean(JoinSep(given)))

\* outFile of the playlist branch and of the single-video branch.
PlaylistOutFile(outputDir, playlistTitle, itemTitle) ==
  Join(<< outputDir, sanitizeFilename(playlistTitle),
          sanitizeFilename(itemTitle) \o <<".mp4">> >>)

SingleOutFile(outputDir) == Join(<< outputDir, <<"output.mp4">> >>)

\* What is at a path: nothing, a directory, or a regular file that a download
\* completed ("complete") or only created and partly wrote ("partial").
FileKinds == {"none", "dir", "partial", "complete"}

\* os.Stat fails when nothing is at the path; else !info.IsDir().
fileExistsMutNeverFound(files, path) == FALSE

fileExists(files, path) ==
  IF files[path] = "none" THEN FALSE ELSE files[path] # "dir"

(***************************************************************************)
(* The remote side.  A chain serves page 1 for the first-page request and  *)
(* page i+1 for the token of page i.  Its tail says how it ends: "end"     *)
(* (the last page carries no continuation), "loop" (the last page carries  *)
(* the token Tok(back) again), or the request for the last page fails:     *)
(* "connection" (httpClient.Do fails), "status" (a non-200 status),        *)
(* "malformed" (a body that is not JSON).                                  *)
(***************************************************************************)
TokenNames == << "T1", "T2", "T3", "T4", "T5" >>

Tok(i) == << TokenNames[i] >>

PlaylistID == << "PL1" >>

PlaylistTitle == << "m", "/", "x" >>

OutputDir == << ".", "/", "downloads" >>

\* The request body's mode selector: browseId for the first page, else
\* continuation.
RequestBody(playlistID, token) ==
  IF token = ES THEN [browseId |-> <<"VL">> \o playlistID]
  ELSE [continuation |-> token]

\* The page a request asks for.
RequestedPage(chain, body) ==
  IF "browseId" \in DOMAIN body THEN 1
  ELSE LET i == CHOOSE j \in 1..Len(TokenNames) : Tok(j) = body.continuation
       IN IF i < Len(chain.pages) THEN i + 1 ELSE Len(chain.pages)

\* The continuation the remote attaches to page i.
PageToken(chain, i) ==
  IF i < Len(chain.pages) THEN Tok(i)
  ELSE IF chain.tail = "loop" THEN Tok(chain.back) ELSE ES

RawItems(raw) == [i \in DOMAIN raw |-> ItemJSON(raw[i].videoId, raw[i].title)]

RawConts(token) == IF token = ES THEN <<>> ELSE << ContJSON(ES), ContJSON(token) >>

\* The response to a request: the first-page shape for a browseId request,
\* the continuation shape for a continuation request.
Respond(chain, body) ==
  LET i == RequestedPage(chain, body)
      list == VideoListJSON(RawItems(chain.pages[i]), RawConts(PageToken(chain, i)))
      failing == i = Len(chain.pages)
  IN IF failing /\ chain.tail = "connection" THEN [doErr |-> TRUE, status |-> 0, body |-> JInvalid]
     ELSE IF failing /\ chain.tail = "status" THEN [doErr |-> FALSE, status |-> 500, body |-> JEmptyObj]
     ELSE IF failing /\ chain.tail = "malformed" THEN [doErr |-> FALSE, status |-> 200, body |-> JInvalid]
     ELSE [doErr |-> FALSE, status |-> 200,
           body |-> IF "browseId" \in DOMAIN body
                    THEN FirstPageJSON(OneBlockTabs(list))
                    ELSE ContinuationJSON(list)]

StatusOK == 200

\* GetPlaylistPageToken: the request, the transport and status checks, the
\* parse.
GetPlaylistPageToken(chain, playlistID, token) ==
  LET resp == Respond(chain, RequestBody(playlistID, token))
  IN IF resp.doErr \/ resp.status # StatusOK THEN [err |-> TRUE, paged |-> ZeroPaged]
     ELSE parsePlaylistJSON(resp.body)

\* One iteration of the loop of fetchAllPlaylistEntries on the result of its
\* page request: return nil, err / append and break / append and loop.
fetchAllIterationMutStopsOnEmptyPage(acc, token, res) ==
  IF res.err THEN [state |-> "error", all |-> acc, pageToken |-> token]
  ELSE IF res.paged.NextPageToken = ES \/ res.paged.Entries = <<>>
       THEN [state |-> "return", all |-> acc \o res.paged.Entries, pageToken |-> token]
       ELSE [state |-> "loop", all |-> acc \o res.paged.Entries,
             pageToken |-> res.paged.NextPageToken]

fetchAllIterationMutStopsOnRepeat(acc, token, res) ==
  IF res.err THEN [state |-> "error", all |-> acc, pageToken |-> token]
  ELSE IF res.paged.NextPageToken = ES \/ res.paged.NextPageToken = token
       THEN [state |-> "return", all |-> acc \o res.paged.Entries, pageToken |-> token]
       ELSE [state |-> "loop", all |-> acc \o res.paged.Entries,
             pageToken |-> res.paged.NextPageToken]

fetchAllIterationMutKeepsPartial(acc, token, res) ==
  IF res.err \/ res.paged.NextPageToken = ES
  THEN [state |-> "return", all |-> acc \o res.paged.Entries, pageToken |-> token]
  ELSE [state |-> "loop", all |-> acc \o res.paged.Entries,
        pageToken |-> res.paged.NextPageToken]

fetchAllIteration(acc, token, res) ==
  IF res.err THEN [state |-> "error", all |-> acc, pageToken |-> token]
  ELSE IF res.paged.NextPageToken = ES
       THEN [state |-> "return", all |-> acc \o res.paged.Entries, pageToken |-> token]
       ELSE [state |-> "loop", all |-> acc \o res.paged.Entries,
             pageToken |-> res.paged.NextPageToken]

(***************************************************************************)
(* downloadSingleVideo, as the worker (or the single-video branch) sees    *)
(* it: everything up to os.Create, then io.Copy.                           *)
(***************************************************************************)
\* What the collaborators do during one call: whether GetVideo, GetStream,
\* os.MkdirAll and os.Create succeed, and the formats GetVideo reports.
DlFormatLists ==
  { << [QualityLabel |-> <<"7", "2", "0", "p">>, AudioChannels |-> 2],
       [QualityLabel |-> <<"1", "0", "8", "0", "p">>, AudioChannels |-> 0] >>,
    << [QualityLabel |-> <<"1", "0", "8", "0", "p">>, AudioChannels |-> 0] >> }

DlWorlds ==
  [getVideo : BOOLEAN, formats : DlFormatLists, getStream : BOOLEAN,
   mkdirAll : BOOLEAN, create : BOOLEAN]

\* GetVideo, the format selection, GetStream, MkdirAll and Create: the first
\* failure is returned; Create fails on a directory and else leaves an empty
\* regular file at outFile.
OpenOutFile(world, files, outFile) ==
  LET err == \/ ~world.getVideo
             \/ SelectBest(world.formats).err
             \/ ~world.getStream
             \/ ~world.mkdirAll
             \/ ~world.create
             \/ files[outFile] = "dir"
  IN [err |-> err,
      files |-> IF err THEN files ELSE [files EXCEPT ![outFile] = "partial"]]

\* io.Copy: all bytes written, or an error part-way with the file left as it is.
CopyStreamMutRemovesPartial(ok, files, outFile) ==
  [err |-> ~ok,
   files |-> [files EXCEPT ![outFile] = IF ok THEN "complete" ELSE "none"]]

CopyStream(ok, files, outFile) ==
  [err |-> ~ok,
   files |-> IF ok THEN [files EXCEPT ![outFile] = "complete"] ELSE files]

(***************************************************************************)
(* runDownload.                                                            *)
(***************************************************************************)
MaxWorkers == 2

MaxPages == 2

\* The model stops a crawl that the remote never ends after this many requests.
MaxRequests == MaxPages + 1

WorkerIDs == 1..MaxWorkers

\* What a worker holds: the item it received, with its queue position, and
\* the destination once the worker has computed it.
NoItem == [pos |-> 0, ID |-> ES, Title |-> ES, outFile |-> ES]

\* Per queue position: what was at the item's destination when it was queued,
\* the workers that received the item, whether its
\* destination was checked, what was found there and whether that was a
\* regular file, the calls of
\* downloadSingleVideo for it, whether one of them got as far as creating the
\* file, those that returned an error, and the "Error:" lines logged for it.
ZeroLog ==
  [before |-> "none", takenBy |-> <<>>, checked |-> FALSE, found |-> "none", regular |-> FALSE,
   invoked |-> 0, created |-> FALSE, failed |-> 0, reported |-> 0]

\* if skipExisting && fileExists(outFile)
SkipsExistingMutIgnoresFlag(skip, files, outFile) == fileExists(files, outFile)

SkipsExistingMutNever(skip, files, outFile) == FALSE

SkipsExisting(skip, files, outFile) == skip /\ fileExists(files, outFile)

\* item, ok := <-ch on the closed, buffered channel.
ChanRecvMutPeek(c) == [item |-> Head(c), rest |-> c]

ChanRecv(c) == [item |-> Head(c), rest |-> Tail(c)]

\* After downloadSingleVideo returns in a worker: an error is logged, and the
\* loop goes on to the next item either way.
AfterPerItemMutAborts(err) == [report |-> err, next |-> IF err THEN "exited" ELSE "recv"]

AfterPerItem(err) == [report |-> err, next |-> "recv"]

\* wg.Wait() returns when the counter is zero.
WaitReturnsMutEarly(n) == n <= 1

WaitReturns(n) == n = 0

\* The errors the workers logged.
RECURSIVE Reported(_)
Reported(l) == IF l = <<>> THEN 0 ELSE Head(l).reported + Reported(Tail(l))

\* What the playlist branch returns after wg.Wait(): nil, whatever was logged.
PoolReturnMutFailsOnItemError(failures) == IF failures > 0 THEN "err" ELSE "nil"

PoolReturn(failures) == "nil"

\* The number of runs of the command in a session of reruns.
MaxRuns == 2

\* runDownload up to the branch: isPlaylist, and GetPlaylist in the playlist
\* branch.
Start ==
  /\ pc = "start"
  /\ IF isPlaylist(inputURL)
     THEN /\ \E ok \in BOOLEAN :
               IF ok THEN pc' = "crawl" /\ ret' = ret
               ELSE pc' = "returned" /\ ret' = "err"
          /\ log' = log
     ELSE /\ pc' = "single"
          /\ ret' = ret
          /\ log' = << ZeroLog >>
  /\ UNCHANGED <<inputURL, concurrency, skipExisting, remote, fs, all, pageToken,
                 requests, entries, ch, wg, spawned, wpc, witem, fnIn, fnOut, runs>>

\* One iteration of fetchAllPlaylistEntries; its return into runDownload.
FetchPage ==
  /\ pc = "crawl"
  /\ Len(requests) < MaxRequests
  /\ LET it == fetchAllIteration(all, pageToken,
                                 GetPlaylistPageToken(remote, PlaylistID, pageToken))
     IN /\ requests' = Append(requests, pageToken)
        /\ all' = it.all
        /\ pageToken' = it.pageToken
        /\ pc' = CASE it.state = "error" -> "returned"
                   [] it.state = "return" -> "enqueue"
                   [] it.state = "loop" -> "crawl"
        /\ ret' = IF it.state = "error" THEN "err" ELSE ret
        /\ entries' = IF it.state = "return" THEN it.all ELSE entries
  /\ UNCHANGED <<inputURL, concurrency, skipExisting, remote, fs, ch, wg, spawned,
                 wpc, witem, log, fnIn, fnOut, runs>>

\* make(chan, len(entries)), the sends, close(ch).
Enqueue ==
  /\ pc = "enqueue"
  /\ ch' = entries
  /\ log' = [i \in 1..Len(entries) |->
               [ZeroLog EXCEPT !.before =
                  fs[PlaylistOutFile(OutputDir, PlaylistTitle, entries[i].Title)]]]
  /\ pc' = "spawn"
  /\ UNCHANGED <<inputURL, concurrency, skipExisting, remote, fs, ret, all, pageToken,
                 requests, entries, wg, spawned, wpc, witem, fnIn, fnOut, runs>>

\* One iteration of for i := 0; i < concurrency; i++: wg.Add(1), go func.
SpawnMutOneMore ==
  /\ pc = "spawn"
  /\ spawned < concurrency + 1
  /\ spawned < MaxWorkers
  /\ wg' = wg + 1
  /\ spawned' = spawned + 1
  /\ wpc' = [wpc EXCEPT ![spawned + 1] = "recv"]
  /\ UNCHANGED <<inputURL, concurrency, skipExisting, remote, fs, pc, ret, all,
                 pageToken, requests, entries, ch, witem, log, fnIn, fnOut, runs>>

SpawnMutAtLeastOne ==
  /\ pc = "spawn"
  /\ spawned < (IF concurrency < 1 THEN 1 ELSE concurrency)
  /\ wg' = wg + 1
  /\ spawned' = spawned + 1
  /\ wpc' = [wpc EXCEPT ![spawned + 1] = "recv"]
  /\ UNCHANGED <<inputURL, concurrency, skipExisting, remote, fs, pc, ret, all,
                 pageToken, requests, entries, ch, witem, log, fnIn, fnOut, runs>>

Spawn ==
  /\ pc = "spawn"
  /\ spawned < concurrency
  /\ wg' = wg + 1
  /\ spawned' = spawned + 1
  /\ wpc' = [wpc EXCEPT ![spawned + 1] = "recv"]
  /\ UNCHANGED <<inputURL, concurrency, skipExisting, remote, fs, pc, ret, all,
                 pageToken, requests, entries, ch, witem, log, fnIn, fnOut, runs>>

\* The loop condition fails: on to wg.Wait().
SpawnDone ==
  /\ pc = "spawn"
  /\ ~(spawned < concurrency)
  /\ pc' = "wait"
  /\ UNCHANGED <<inputURL, concurrency, skipExisting, remote, fs, ret, all, pageToken,
                 requests, entries, ch, wg, spawned, wpc, witem, log, fnIn, fnOut, runs>>

\* wg.Wait() returns; "Done with playlist downloads."; return nil.
Wait ==
  /\ pc = "wait"
  /\ WaitReturns(wg)
  /\ pc' = "returned"
  /\ ret' = PoolReturn(Reported(log))
  /\ UNCHANGED <<inputURL, concurrency, skipExisting, remote, fs, all, pageToken,
                 requests, entries, ch, wg, spawned, wpc, witem, log, fnIn, fnOut, runs>>

\* for item := range ch: the next item, or the end of the loop and the
\* deferred wg.Done().
Recv(w) ==
  /\ wpc[w] = "recv"
  /\ IF ch = <<>>
     THEN /\ wpc' = [wpc EXCEPT ![w] = "exited"]
          /\ wg' = wg - 1
          /\ UNCHANGED <<ch, witem, log>>
     ELSE LET r == ChanRecv(ch)
              pos == Len(entries) - Len(ch) + 1
          IN /\ ch' = r.rest
             /\ witem' = [witem EXCEPT ![w] = [pos |-> pos, ID |-> r.item.ID,
                                               Title |-> r.item.Title,
                                               outFile |-> ES]]
             /\ wpc' = [wpc EXCEPT ![w] = "got"]
             /\ log' = [log EXCEPT ![pos].takenBy = Append(@, w)]
             /\ wg' = wg
  /\ UNCHANGED <<inputURL, concurrency, skipExisting, remote, fs, pc, ret, all,
                 pageToken, requests, entries, spawned, fnIn, fnOut, runs>>

\* The loop body up to the call of downloadSingleVideo: the empty-ID skip,
\* the destination path, the skip-existing check.
Check(w) ==
  /\ wpc[w] = "got"
  /\ \E item \in { witem[w] },
        outFile \in { PlaylistOutFile(OutputDir, PlaylistTitle, witem[w].Title) } :
        IF item.ID = ES
        THEN /\ wpc' = [wpc EXCEPT ![w] = "recv"]
             /\ witem' = [witem EXCEPT ![w] = NoItem]
             /\ log' = log
        ELSE IF SkipsExisting(skipExisting, fs, outFile)
        THEN /\ wpc' = [wpc EXCEPT ![w] = "recv"]
             /\ witem' = [witem EXCEPT ![w] = NoItem]
             /\ log' = [log EXCEPT ![item.pos].checked = TRUE,
                                   ![item.pos].found = fs[outFile],
                                   ![item.pos].regular = fs[outFile] \in {"partial", "complete"}]
        ELSE /\ wpc' = [wpc EXCEPT ![w] = "dl"]
             /\ witem' = [witem EXCEPT ![w].outFile = outFile]
             /\ log' = [log EXCEPT ![item.pos].checked = TRUE,
                                   ![item.pos].found = fs[outFile],
                                   ![item.pos].regular = fs[outFile] \in {"partial", "complete"},
                                   ![item.pos].invoked = @ + 1]
  /\ UNCHANGED <<inputURL, concurrency, skipExisting, remote, fs, pc, ret, all,
                 pageToken, requests, entries, ch, wg, spawned, fnIn, fnOut, runs>>

\* The worker's step after downloadSingleVideo returned err (or nil).
WorkerContinues(w, err) ==
  LET a == AfterPerItem(err)
      pos == witem[w].pos
  IN /\ wpc' = [wpc EXCEPT ![w] = a.next]
     /\ wg' = IF a.next = "exited" THEN wg - 1 ELSE wg
     /\ witem' = [witem EXCEPT ![w] = NoItem]
     /\ log' = [log EXCEPT ![pos].failed = IF err THEN @ + 1 ELSE @,
                           ![pos].reported = IF a.report THEN @ + 1 ELSE @]

\* downloadSingleVideo in a worker, up to os.Create.
Download(w) ==
  /\ wpc[w] = "dl"
  /\ \E world \in DlWorlds :
       LET o == OpenOutFile(world, fs, witem[w].outFile)
       IN /\ fs' = o.files
          /\ IF o.err THEN WorkerContinues(w, TRUE)
             ELSE /\ wpc' = [wpc EXCEPT ![w] = "copy"]
                  /\ log' = [log EXCEPT ![witem[w].pos].created = TRUE]
                  /\ UNCHANGED <<wg, witem>>
  /\ UNCHANGED <<inputURL, concurrency, skipExisting, remote, pc, ret, all,
                 pageToken, requests, entries, ch, spawned, fnIn, fnOut, runs>>

\* downloadSingleVideo in a worker: io.Copy and the return.
Copy(w) ==
  /\ wpc[w] = "copy"
  /\ \E ok \in BOOLEAN :
       LET o == CopyStream(ok, fs, witem[w].outFile)
       IN /\ fs' = o.files
          /\ WorkerContinues(w, o.err)
  /\ UNCHANGED <<inputURL, concurrency, skipExisting, remote, pc, ret, all,
                 pageToken, requests, entries, ch, spawned, fnIn, fnOut, runs>>

\* The single-video branch: the skip-existing check.
SingleCheck ==
  /\ pc = "single"
  /\ LET outFile == SingleOutFile(OutputDir)
     IN /\ IF SkipsExisting(skipExisting, fs, outFile)
           THEN /\ pc' = "returned"
                /\ ret' = "nil"
                /\ log' = [log EXCEPT ![1].checked = TRUE,
                                      ![1].found = fs[outFile],
                                      ![1].regular = fs[outFile] \in {"partial", "complete"}]
           ELSE /\ pc' = "singleDl"
                /\ ret' = ret
                /\ log' = [log EXCEPT ![1].checked = TRUE,
                                      ![1].found = fs[outFile],
                                      ![1].regular = fs[outFile] \in {"partial", "complete"},
                                      ![1].invoked = @ + 1]
  /\ UNCHANGED <<inputURL, concurrency, skipExisting, remote, fs, all, pageToken,
                 requests, entries, ch, wg, spawned, wpc, witem, fnIn, fnOut, runs>>

\* The single-video branch: downloadSingleVideo up to os.Create.
SingleDownload ==
  /\ pc = "singleDl"
  /\ \E world \in DlWorlds :
       LET o == OpenOutFile(world, fs, SingleOutFile(OutputDir))
       IN /\ fs' = o.files
          /\ IF o.err
             THEN /\ pc' = "returned"
                  /\ ret' = "err"
                  /\ log' = [log EXCEPT ![1].failed = @ + 1, ![1].reported = @ + 1]
             ELSE /\ pc' = "singleCopy"
                  /\ log' = [log EXCEPT ![1].created = TRUE]
                  /\ ret' = ret
  /\ UNCHANGED <<inputURL, concurrency, skipExisting, remote, all, pageToken,
                 requests, entries, ch, wg, spawned, wpc, witem, fnIn, fnOut, runs>>

\* The single-video branch: io.Copy and the return of runDownload.
SingleCopy ==
  /\ pc = "singleCopy"
  /\ \E ok \in BOOLEAN :
       LET o == CopyStream(ok, fs, SingleOutFile(OutputDir))
       IN /\ fs' = o.files
          /\ pc' = "returned"
          /\ ret' = IF o.err THEN "err" ELSE "nil"
          /\ log' = [log EXCEPT ![1].failed = IF o.err THEN @ + 1 ELSE @,
                                ![1].reported = IF o.err THEN @ + 1 ELSE @]
  /\ UNCHANGED <<inputURL, concurrency, skipExisting, remote, all, pageToken,
                 requests, entries, ch, wg, spawned, wpc, witem, fnIn, fnOut, runs>>

Next ==
  \/ Start
  \/ FetchPage
  \/ Enqueue
  \/ Spawn
  \/ SpawnDone
  \/ Wait
  \/ \E w \in WorkerIDs : Recv(w)
  \/ \E w \in WorkerIDs : Check(w)
  \/ \E w \in WorkerIDs : Download(w)
  \/ \E w \in WorkerIDs : Copy(w)
  \/ SingleCheck
  \/ SingleDownload
  \/ SingleCopy

\* What is kept of a finished run: what happened to each item, without the
\* goroutine that handled it.
Archived(l) == [i \in DOMAIN l |-> [l[i] EXCEPT !.takenBy = <<>>]]

\* The command is run again, with the same flags, on the filesystem the run
\* before it left: a new process, in which runDownload starts afresh.
Rerun ==
  /\ pc = "returned"
  /\ Len(runs) < MaxRuns - 1
  /\ runs' = Append(runs, [ret |-> ret, entries |-> entries, log |-> Archived(log)])
  /\ pc' = "start"
  /\ ret' = "none"
  /\ all' = <<>>
  /\ pageToken' = ES
  /\ requests' = <<>>
  /\ entries' = <<>>
  /\ ch' = <<>>
  /\ wg' = 0
  /\ spawned' = 0
  /\ wpc' = [w \in WorkerIDs |-> "idle"]
  /\ witem' = [w \in WorkerIDs |-> NoItem]
  /\ log' = <<>>
  /\ UNCHANGED <<inputURL, concurrency, skipExisting, remote, fs, fnIn, fnOut>>

NextRerun ==
  \/ Next
  \/ Rerun

(***************************************************************************)
(* Inputs.                                                                 *)
(***************************************************************************)
PlaylistURL == << "https://www.youtube.com/playlist?", "list=", "PL1" >>

VideoURL == << "https://www.youtube.com/watch?v=", "v1" >>

\* Raw playlist entries as the remote lists them: one without a videoId, two
\* whose titles sanitize to the same file name, one with a padded title.
E0 == [videoId |-> ES, title |-> << "x" >>]

E1 == [videoId |-> << "v1" >>, title |-> << "a", "/", "b" >>]

E2 == [videoId |-> << "v2" >>, title |-> << "a", "_", "b" >>]

E3 == [videoId |-> << "v3" >>, title |-> << "\f", "c", "U+00A0" >>]

RawEntries == {E0, E1, E2, E3}

Paths ==
  { PlaylistOutFile(OutputDir, PlaylistTitle, e.title) : e \in RawEntries }
  \cup { SingleOutFile(OutputDir) }

NoFiles == [p \in Paths |-> "none"]

\* The state in which the command starts, for the given flags, remote and
\* filesystem.
ProgramStarts(url, conc, skip, chain, files) ==
  /\ inputURL = url
  /\ concurrency = conc
  /\ skipExisting = skip
  /\ remote = chain
  /\ fs = files
  /\ pc = "start"
  /\ ret = "none"
  /\ all = <<>>
  /\ pageToken = ES
  /\ requests = <<>>
  /\ entries = <<>>
  /\ ch = <<>>
  /\ wg = 0
  /\ spawned = 0
  /\ wpc = [w \in WorkerIDs |-> "idle"]
  /\ witem = [w \in WorkerIDs |-> NoItem]
  /\ log = <<>>
  /\ runs = <<>>
  /\ fnIn = [fn |-> "none"]
  /\ fnOut = [fn |-> "none"]

Chain(pages, tail, back) == [pages |-> pages, tail |-> tail, back |-> back]

\* Specification Spec: a few playlists, every worker count, both settings of
\* --skip-existing, several filesystems.
PoolChains ==
  { Chain(<< <<E1, E2>>, <<E0, E3>> >>, "end", 0),
    Chain(<< <<E3>> >>, "end", 0),
    Chain(<< <<>> >>, "end", 0),
    Chain(<< <<E1>>, <<>> >>, "status", 0) }

PoolFiles ==
  { NoFiles,
    [NoFiles EXCEPT ![PlaylistOutFile(OutputDir, PlaylistTitle, E1.title)] = "complete"],
    [NoFiles EXCEPT ![PlaylistOutFile(OutputDir, PlaylistTitle, E1.title)] = "dir"],
    [NoFiles EXCEPT ![PlaylistOutFile(OutputDir, PlaylistTitle, E3.title)] = "partial"] }

SingleFiles ==
  { [NoFiles EXCEPT ![SingleOutFile(OutputDir)] = k] : k \in FileKinds }

Init ==
  \/ \E conc \in -1..MaxWorkers, skip \in BOOLEAN, chain \in PoolChains, files \in PoolFiles :
       ProgramStarts(PlaylistURL, conc, skip, chain, files)
  \/ \E skip \in BOOLEAN, files \in SingleFiles :
       ProgramStarts(VideoURL, 1, skip, Chain(<< <<>> >>, "end", 0), files)

Spec == Init /\ [][Next]_vars

\* Specification SpecCrawl: every chain of up to MaxPages pages with every
\* tail, one worker.
CrawlPages == { <<>>, <<E0>>, <<E3>>, <<E0, E1>>, <<E2, E3>> }

CrawlChains ==
  { Chain(pages, tail, 0) :
      pages \in SeqUpTo(CrawlPages, MaxPages) \ {<<>>},
      tail \in {"end", "connection", "status", "malformed"} }
  \cup UNION { { Chain(pages, "loop", back) : back \in 1..Len(pages) } :
                 pages \in SeqUpTo(CrawlPages, MaxPages) \ {<<>>} }

InitCrawl ==
  \/ \E chain \in CrawlChains :
       ProgramStarts(PlaylistURL, 1, FALSE, chain, NoFiles)
  \/ ProgramStarts(VideoURL, 1, FALSE, Chain(<< <<>> >>, "end", 0), NoFiles)

SpecCrawl == InitCrawl /\ [][Next]_vars

\* Specification SpecPool: the pool on three items and on one, every worker
\* count, with the goroutines scheduled and every call returning.
PoolFairChains ==
  { Chain(<< <<E1, E2, E3>> >>, "end", 0),
    Chain(<< <<E3>> >>, "end", 0) }

InitPool ==
  \/ \E conc \in -1..MaxWorkers, chain \in PoolFairChains :
       ProgramStarts(PlaylistURL, conc, FALSE, chain, NoFiles)
  \/ \E skip \in BOOLEAN :
       ProgramStarts(VideoURL, 1, skip, Chain(<< <<>> >>, "end", 0), NoFiles)

\* A step of worker goroutine w.
WorkerStep(w) == Recv(w) \/ Check(w) \/ Download(w) \/ Copy(w)

SpecPool == InitPool /\ [][Next]_vars /\ \A w \in WorkerIDs : WF_vars(WorkerStep(w))

\* Specification SpecRerun: the command run MaxRuns times in a row on one
\* filesystem, on a playlist or on a single video.
RerunChains ==
  { Chain(<< <<E1, E3>> >>, "end", 0),
    Chain(<< <<E3>> >>, "end", 0),
    Chain(<< <<E3>> >>, "status", 0) }

InitRerun ==
  \/ \E conc \in 1..MaxWorkers, skip \in BOOLEAN, chain \in RerunChains :
       ProgramStarts(PlaylistURL, conc, skip, chain, NoFiles)
  \/ \E skip \in BOOLEAN, files \in SingleFiles :
       ProgramStarts(VideoURL, 1, skip, Chain(<< <<>> >>, "end", 0), files)

SpecRerun == InitRerun /\ [][NextRerun]_vars

\* The program is not running in the specifications of the pure functions.
ProgramOff ==
  /\ inputURL = ES
  /\ concurrency = 0
  /\ skipExisting = FALSE
  /\ remote = Chain(<< <<>> >>, "end", 0)
  /\ fs = NoFiles
  /\ pc = "off"
  /\ ret = "none"
  /\ all = <<>>
  /\ pageToken = ES
  /\ requests = <<>>
  /\ entries = <<>>
  /\ ch = <<>>
  /\ wg = 0
  /\ spawned = 0
  /\ wpc = [w \in WorkerIDs |-> "idle"]
  /\ witem = [w \in WorkerIDs |-> NoItem]
  /\ log = <<>>
  /\ runs = <<>>

(***************************************************************************)
(* The pure functions on their own: parsePlaylistJSON over response        *)
(* bodies, the format selection over candidate lists.                      *)
(***************************************************************************)
MaxContents == 2

MaxConts == 2

\* Items: complete, without a title member, with an empty videoId, with no
\* videoId member at all.
ParseItems ==
  { ItemJSON(<<"v1">>, <<"a">>),
    UntitledItemJSON(<<"v2">>),
    ItemJSON(ES, <<"c">>),
    JEmptyObj }

ParseConts == { ContJSON(T1), ContJSON(T2), ContJSON(ES) }

ContentsLists == SeqUpTo(ParseItems, MaxContents)

ContinuationsLists == SeqUpTo(ParseConts, MaxConts)

\* The lists of the responses with two lists: at most one item.
SmallContentsLists ==
  { <<>>, << ItemJSON(<<"v1">>, <<"a">>) >>, << ItemJSON(ES, <<"c">>) >> }

ContentsTag == TagOf(RootType, "Contents")

ContinuationContentsTag == TagOf(RootType, "ContinuationContents")

ListContinuationTag == TagOf(ContinuationContentsType, "PlaylistVideoListContinuation")

RendererTag == TagOf(ItemType, "PlaylistVideoRenderer")

VideoIDTag == TagOf(VideoRendererType, "VideoID")

ListContentsTag == TagOf(VideoListType, "Contents")

ContinuationsTag == TagOf(VideoListType, "Continuations")

\* A member name no field of the struct has.
ResponseContextTag == << "r", "e", "s", "p", "o", "n", "s", "e", "C", "o", "n", "t",
                         "e", "x", "t" >>

\* Bodies that are no JSON, JSON of another type than the struct's, or JSON
\* with members absent, null or unknown.
OddBodies ==
  { JInvalid, JNull, JEmptyObj, JArr(<<>>), JStr(<<"x">>), JNum,
    One(ContentsTag, JStr(<<"x">>)),
    One(ContentsTag, JEmptyObj),
    One(ContentsTag, JArr(<<>>)),
    JObj(<< Member(ContinuationContentsTag, JNull), Member(ResponseContextTag, JNum) >>),
    One(ContinuationContentsTag, One(ListContinuationTag, JNum)),
    One(ResponseContextTag, One(ContentsTag, JNum)),
    FirstPageJSON(<<>>),
    FirstPageJSON(<< JEmptyObj >>),
    FirstPageJSON(<< TabJSON(<<>>) >>),
    FirstPageJSON(<< TabJSON(<< SectionJSON(<<>>) >>) >>),
    FirstPageJSON(<< TabJSON(<< SectionJSON(<< JEmptyObj >>) >>) >>),
    FirstPageJSON(<< TabJSON(<< JNum >>) >>),
    ContinuationJSON(One(ListContentsTag,
                         JArr(<< One(RendererTag, One(VideoIDTag, JNum)) >>))),
    ContinuationJSON(One(ListContentsTag, JEmptyObj)),
    ContinuationJSON(One(ContinuationsTag, JArr(<< ContJSON(T1) >>))) }

\* strings.ToUpper on ASCII letters, to write member names in another case.
ToUpper(s) ==
  [i \in DOMAIN s |->
     IF \E j \in DOMAIN LowerCase : LowerCase[j] = s[i]
     THEN UpperCase[CHOOSE j \in DOMAIN LowerCase : LowerCase[j] = s[i]]
     ELSE s[i]]

\* An item whose videoId member is named name.
NamedIDItemJSON(name, vid) == One(RendererTag, One(name, vid))

\* Bodies with member names in another case than the json tags.
FoldedBodies ==
  { One(ToUpper(ContentsTag), JStr(<<"x">>)),
    One(ToUpper(ContentsTag), FirstPageMember(OneBlockTabs(
      VideoListJSON(<< ItemJSON(<<"v1">>, <<"a">>) >>, << ContJSON(T1) >>)))),
    One(ToUpper(ResponseContextTag), JNum),
    One(<< "c", "o", "n", "t", "e", "n", "t", "U+017F" >>, FirstPageMember(OneBlockTabs(
      VideoListJSON(<< ItemJSON(<<"v1">>, <<"a">>) >>, << ContJSON(T1) >>)))),
    One(<< "c", "o", "n", "t", "e", "n", "t", "z" >>, JNum),
    One(ToUpper(ContinuationContentsTag), ContinuationMember(
      VideoListJSON(<< ItemJSON(<<"v1">>, <<"a">>) >>, << ContJSON(T2) >>))),
    ContinuationJSON(VideoListJSON(
      << NamedIDItemJSON(<< "v", "i", "d", "e", "o", "I", "D" >>, JStr(<<"v1">>)) >>, << ContJSON(T1) >>)),
    ContinuationJSON(VideoListJSON(
      << NamedIDItemJSON(<< "V", "i", "d", "e", "o", "I", "d" >>, JNum) >>, << ContJSON(T1) >>)),
    ContinuationJSON(VideoListJSON(
      << NamedIDItemJSON(<< "v", "i", "d", "e", "o", "_", "i", "d" >>, JNum) >>, << ContJSON(T1) >>)),
    ContinuationJSON(One(ToUpper(ContinuationsTag), JArr(<< ContJSON(T1) >>))) }

\* Bodies in which a member occurs more than once.
RepeatedBodies ==
  { \* the later videoId is stored over the earlier
    ContinuationJSON(VideoListJSON(
      << One(RendererTag, JObj(<< Member(VideoIDTag, JStr(<<"v1">>)),
                                  Member(ToUpper(VideoIDTag), JStr(<<"v2">>)) >>)) >>,
      <<>>)),
    \* null leaves the string stored before it
    ContinuationJSON(VideoListJSON(
      << One(RendererTag, JObj(<< Member(VideoIDTag, JStr(<<"v1">>)),
                                  Member(VideoIDTag, JNull) >>)) >>,
      <<>>)),
    \* the second renderer object is stored into the first: title kept
    ContinuationJSON(VideoListJSON(
      << JObj(<< Member(RendererTag,
                        ItemJSON(<<"v1">>, <<"a">>).m[1].v),
                 Member(RendererTag, One(VideoIDTag, JStr(<<"v2">>))) >>) >>,
      <<>>)),
    \* a second, shorter contents array is stored into the elements of the first
    ContinuationJSON(JObj(
      << Member(ListContentsTag, JArr(<< ItemJSON(<<"v1">>, <<"a">>),
                                     ItemJSON(<<"v2">>, <<"b">>) >>)),
         Member(ListContentsTag, JArr(<< UntitledItemJSON(<<"v3">>) >>)) >>)),
    \* a third array reaches an element the second had cut off
    ContinuationJSON(JObj(
      << Member(ListContentsTag, JArr(<< ItemJSON(<<"v1">>, <<"a">>),
                                     ItemJSON(<<"v2">>, <<"b">>) >>)),
         Member(ListContentsTag, JArr(<< JEmptyObj >>)),
         Member(ListContentsTag, JArr(<< JEmptyObj, JEmptyObj >>)) >>)),
    \* an empty array and null empty the slice
    ContinuationJSON(JObj(
      << Member(ListContentsTag, JArr(<< ItemJSON(<<"v1">>, <<"a">>) >>)),
         Member(ListContentsTag, JArr(<<>>)),
         Member(ListContentsTag, JArr(<< JEmptyObj >>)) >>)),
    ContinuationJSON(JObj(
      << Member(ListContentsTag, JArr(<< ItemJSON(<<"v1">>, <<"a">>) >>)),
         Member(ListContentsTag, JNull),
         Member(ContinuationsTag, JArr(<< ContJSON(T1) >>)) >>)),
    \* a later member of the wrong kind fails the decode
    JObj(<< Member(ContentsTag, FirstPageMember(<<>>)),
            Member(ContentsTag, JNum) >>) }

\* The bodies parsePlaylistJSON is applied to: the odd ones; a continuation
\* response; a first-page response with one playlistVideoListRenderer; one
\* with two of them, in one section, two sections or two tabs; a response
\* with both shapes.
InitParse ==
  /\ ProgramOff
  /\ fnOut = NotApplied
  /\ \/ \E body \in OddBodies \cup FoldedBodies \cup RepeatedBodies :
          fnIn = [fn |-> "parsePlaylistJSON", arg |-> body]
     \/ \E c \in ContentsLists, k \in ContinuationsLists :
          \/ fnIn = [fn |-> "parsePlaylistJSON",
                     arg |-> ContinuationJSON(VideoListJSON(c, k))]
          \/ fnIn = [fn |-> "parsePlaylistJSON",
                     arg |-> FirstPageJSON(OneBlockTabs(VideoListJSON(c, k)))]
     \/ \E c1 \in SmallContentsLists, k1 \in ContinuationsLists,
           c2 \in SmallContentsLists, k2 \in ContinuationsLists :
          \/ \E tabs \in TwoBlockTabs(VideoListJSON(c1, k1), VideoListJSON(c2, k2)) :
               fnIn = [fn |-> "parsePlaylistJSON", arg |-> FirstPageJSON(tabs)]
          \/ fnIn = [fn |-> "parsePlaylistJSON",
                     arg |-> BothJSON(VideoListJSON(c1, k1),
                                      OneBlockTabs(VideoListJSON(c2, k2)))]

ApplyParse ==
  /\ fnIn.fn = "parsePlaylistJSON"
  /\ fnOut = NotApplied
  /\ fnOut' = [fn |-> "parsePlaylistJSON", res |-> parsePlaylistJSON(fnIn.arg)]
  /\ UNCHANGED <<fnIn, progVars>>

NextParse == ApplyParse

SpecParse == InitParse /\ [][NextParse]_vars

MaxFormats == 3

SelectLabels ==
  { ES,
    <<"7", "2", "0", "p">>,
    <<"1", "0", "8", "0", "p">>,
    <<"1", "0", "8", "0", "p", "6", "0">>,
    <<"4", "8", "0">>,
    <<"h", "d">>,
    <<"-", "5", "p">>,
    <<"9", "9", "9", "9", "9", "9", "9", "9", "9", "9", "9", "9", "9", "9", "9", "9",
      "9", "9", "9", "9", "p">>,
    <<"9", "9", "9", "9", "9", "9", "9", "9", "9", "9", "9", "9", "9", "9", "9", "9",
      "9", "9", "9", "9", "p", "6", "0">>,
    <<"-", "9", "9", "9", "9", "9", "9", "9", "9", "9", "9", "9", "9", "9", "9", "9",
      "9", "9", "9", "9", "9", "x">> }

SelectFormats == [QualityLabel : SelectLabels, AudioChannels : {0, 2}]

InitSelect ==
  /\ ProgramOff
  /\ fnIn \in { [fn |-> "SelectBest", arg |-> formats] :
                  formats \in SeqUpTo(SelectFormats, MaxFormats) }
  /\ fnOut = NotApplied

ApplySelect ==
  /\ fnIn.fn = "SelectBest"
  /\ fnOut = NotApplied
  /\ fnOut' = [fn |-> "SelectBest", res |-> SelectBest(fnIn.arg)]
  /\ UNCHANGED <<fnIn, progVars>>

NextSelect == ApplySelect

SpecSelect == InitSelect /\ [][NextSelect]_vars

(***************************************************************************)
(* Properties of the crawler.                                              *)
(***************************************************************************)
\* The pages the Walker returns when asked first with the empty token and
\* then with each page's NextPageToken, up to the first error or empty token.
RECURSIVE WalkFrom(_, _, _)
WalkFrom(chain, token, fuel) ==
  IF fuel = 0 THEN <<>>
  ELSE LET res == GetPlaylistPageToken(chain, PlaylistID, token)
       IN IF res.err \/ res.paged.NextPageToken = ES THEN << res >>
          ELSE << res >> \o WalkFrom(chain, res.paged.NextPageToken, fuel - 1)

Walk(chain) == WalkFrom(chain, ES, MaxRequests)

\* The remote eventually answers with an empty NextToken, and no request fails.
EndsWithEmptyToken(walk) ==
  /\ \A i \in DOMAIN walk : ~walk[i].err
  /\ walk[Len(walk)].paged.NextPageToken = ES

RECURSIVE ConcatEntries(_)
ConcatEntries(walk) ==
  IF walk = <<>> THEN <<>> ELSE Head(walk).paged.Entries \o ConcatEntries(Tail(walk))

\* The tokens of the first n requests: empty, then each page's NextPageToken.
ExpectedTokens(walk, n) ==
  [i \in 1..n |-> IF i = 1 THEN ES ELSE walk[i - 1].paged.NextPageToken]

IsPrefix(s, t) == Len(s) <= Len(t) /\ \A i \in DOMAIN s : s[i] = t[i]

\* fetchAllPlaylistEntries has returned its list to runDownload.
CrawlReturnedList ==
  isPlaylist(inputURL) /\ (pc \in {"enqueue", "spawn", "wait"} \/ (pc = "returned" /\ ret = "nil"))

\* C1: on a chain that ends with an empty NextToken, fetchAllPlaylistEntries
\* terminates (it is never stuck and makes at most one request per page of
\* the chain), sends the empty token first and then each response's
\* NextPageToken, and returns the concatenation of the pages' entries in
\* request order; a page with no entries and a token does not stop it.
C1_FetchAllConcatenates ==
  LET walk == Walk(remote)
  IN (isPlaylist(inputURL) /\ EndsWithEmptyToken(walk)) =>
       /\ Len(requests) <= Len(walk)
       /\ requests = ExpectedTokens(walk, Len(requests))
       /\ pc = "crawl" => (Len(requests) < Len(walk) /\ Len(requests) < MaxRequests)
       /\ pc = "crawl" => all = ConcatEntries(SubSeq(walk, 1, Len(requests)))
       /\ ~(pc = "returned" /\ ret = "err" /\ requests # <<>>)
       /\ CrawlReturnedList =>
            /\ Len(requests) = Len(walk)
            /\ entries = ConcatEntries(walk)

\* A two-page crawl has returned: the first page had no entries but a token,
\* the second two entries.
C1_Witness ==
  /\ CrawlReturnedList
  /\ pc = "enqueue"
  /\ Len(requests) = 2
  /\ Walk(remote)[1].paged.Entries = <<>>
  /\ Walk(remote)[1].paged.NextPageToken # ES
  /\ Len(entries) = 2
  /\ entries[1].ID = << "v2" >>
  /\ entries[2].ID = << "v3" >>

\* C10: a failing page request (the first or a later one) ends the crawl at
\* that request; runDownload returns the error with no list, nothing is put
\* on the channel and no worker is started.
C10_PageErrorAborts ==
  LET walk == Walk(remote)
      n == Len(requests)
      failedAt == { i \in 1..n : i <= Len(walk) /\ walk[i].err }
  IN /\ (failedAt # {}) =>
          /\ failedAt = {n}
          /\ pc = "returned"
          /\ ret = "err"
     /\ (isPlaylist(inputURL) /\ pc = "returned" /\ ret = "err") =>
          /\ n > 0 => (n <= Len(walk) /\ walk[n].err)
          /\ entries = <<>>
          /\ ch = <<>>
          /\ log = <<>>
          /\ spawned = 0
          /\ wg = 0
          /\ \A w \in WorkerIDs : wpc[w] = "idle"

\* The second page request failed after the first page had given an item.
C10_Witness ==
  /\ pc = "returned"
  /\ ret = "err"
  /\ Len(requests) = 2
  /\ all # <<>>
  /\ entries = <<>>

(***************************************************************************)
(* Properties of parsePlaylistJSON.                                        *)
(***************************************************************************)
\* The raw entries with a videoId, as playlist entries, in order.
RECURSIVE Kept(_)
Kept(raw) ==
  IF raw = <<>> THEN <<>>
  ELSE IF Head(raw).videoId = ES THEN Kept(Tail(raw))
       ELSE << [ID |-> Head(raw).videoId, Title |-> Head(raw).title] >> \o Kept(Tail(raw))

NoEmptyID(items) == \A i \in DOMAIN items : items[i].ID # ES

\* The requests the remote can be sent: the first-page request and one per
\* token it issues.
ChainTokens(chain) == {ES} \cup { PageToken(chain, i) : i \in DOMAIN chain.pages }

\* C9: every page parsePlaylistJSON returns, from the first-page shape or the
\* continuation shape, holds exactly the response's entries with a videoId,
\* in response order; so no entry with an empty ID is in the accumulator, in
\* the list fetchAllPlaylistEntries returns, on the channel or in a worker.
C9_NoEmptyIDs ==
  /\ \A token \in ChainTokens(remote) :
       LET req == RequestBody(PlaylistID, token)
           resp == Respond(remote, req)
           res == parsePlaylistJSON(resp.body)
       IN (~resp.doErr /\ resp.status = StatusOK /\ ~res.err) =>
            /\ NoEmptyID(res.paged.Entries)
            /\ res.paged.Entries = Kept(remote.pages[RequestedPage(remote, req)])
  /\ NoEmptyID(all)
  /\ NoEmptyID(entries)
  /\ NoEmptyID(ch)
  /\ \A w \in WorkerIDs : wpc[w] \in {"got", "dl", "copy"} => witem[w].ID # ES

\* A page listing an entry without videoId before one with it has been
\* crawled, and its one kept entry is on the channel.
C9_Witness ==
  /\ pc = "spawn"
  /\ remote.pages[1] = << E0, E1 >>
  /\ Len(remote.pages) = 2
  /\ remote.pages[2] = << E0 >>
  /\ ch = << [ID |-> << "v1" >>, Title |-> E1.title] >>

\* The continuation descriptors of a response in document order: those of
\* the continuation list, then those of every playlistVideoListRenderer.
RECURSIVE Flatten(_)
Flatten(ss) == IF ss = <<>> THEN <<>> ELSE Head(ss) \o Flatten(Tail(ss))

BlocksOfSection(section) == Slice(section.ItemSectionRenderer.Contents)

SectionsOfTab(tab) == Slice(tab.TabRenderer.Content.SectionListRenderer.Contents)

DocBlocks(root) ==
  LET sections == Flatten([t \in DOMAIN FirstPageTabs(root) |->
                             SectionsOfTab(FirstPageTabs(root)[t])])
      blocks == Flatten([s \in DOMAIN sections |-> BlocksOfSection(sections[s])])
  IN [b \in DOMAIN blocks |-> blocks[b].PlaylistVideoListRenderer]

DocContinuations(root) ==
  LET lists == << ContinuationList(root) >> \o DocBlocks(root)
      conts == Flatten([l \in DOMAIN lists |-> Slice(lists[l].Continuations)])
  IN [c \in DOMAIN conts |-> Continuation(conts[c])]

FirstNonEmpty(tokens) ==
  IF \E i \in DOMAIN tokens : tokens[i] # ES
  THEN tokens[CHOOSE i \in DOMAIN tokens :
                tokens[i] # ES /\ \A j \in 1..(i - 1) : tokens[j] = ES]
  ELSE ES

ParseApplied == fnIn.fn = "parsePlaylistJSON" /\ fnOut.fn = "parsePlaylistJSON"

\* C7: for every response that decodes, NextPageToken is the first non-empty
\* continuation of the response in document order (and so empty only when
\* the response carries none), also with several playlistVideoListRenderer
\* blocks that each carry one.
C7_FirstContinuationWins ==
  (ParseApplied /\ ~fnOut.res.err) =>
     fnOut.res.paged.NextPageToken = FirstNonEmpty(DocContinuations(Unmarshal(fnIn.arg)))

\* The values of the members of a JSON object whose name is the given one,
\* in any case; none for a JSON value that is not an object.
MembersNamed(doc, tag) ==
  IF doc.t = "obj"
  THEN { doc.m[i].v : i \in { j \in DOMAIN doc.m : EqualFold(doc.m[j].k, tag) } }
  ELSE {}

\* The response carries the continuation shape: a member
\* continuationContents with a member playlistVideoListContinuation.
HasContinuationShape(doc) ==
  \E cc \in MembersNamed(doc, ContinuationContentsTag) :
     MembersNamed(cc, ListContinuationTag) # {}

\* The response carries the first-page shape: a member contents with a
\* member twoColumnBrowseResultsRenderer.
HasFirstPageShape(doc) ==
  \E c \in MembersNamed(doc, ContentsTag) :
     MembersNamed(c, TagOf(FirstPageType, "TwoColumnBrowseResultsRenderer")) # {}

\* C8: parsePlaylistJSON fails only on a body that is not JSON at all; every
\* JSON response that carries neither the continuation shape nor the
\* first-page shape gives a page with no entries and an empty NextPageToken
\* and no error.
C8_EmptyShapeTolerance ==
  ParseApplied =>
    /\ fnOut.res.err <=> (fnIn.arg = JInvalid)
    /\ (fnIn.arg # JInvalid /\ ~HasContinuationShape(fnIn.arg) /\ ~HasFirstPageShape(fnIn.arg)) =>
         fnOut.res = [err |-> FALSE, paged |-> ZeroPaged]

(***************************************************************************)
(* Properties of the format selection.                                     *)
(***************************************************************************)
SelectApplied == fnIn.fn = "SelectBest" /\ fnOut.fn = "SelectBest"

Eligible(formats) ==
  { i \in DOMAIN formats : formats[i].AudioChannels > 0 /\ formats[i].QualityLabel # ES }

Rank(formats, i) == parseRes(formats[i].QualityLabel)

\* C6: the selection returns an eligible candidate (audio, non-empty label)
\* of maximal rank, the first of those in input order, never an ineligible
\* one; with no eligible candidate it fails and returns no stream.
C6_SelectsFirstMaximal ==
  SelectApplied =>
    LET formats == fnIn.arg
        r == fnOut.res
    IN IF Eligible(formats) = {}
       THEN r.err /\ r.best = 0
       ELSE /\ ~r.err
            /\ r.best \in Eligible(formats)
            /\ \A j \in Eligible(formats) :
                 /\ ~IntLess(Rank(formats, r.best), Rank(formats, j))
                 /\ Rank(formats, j) = Rank(formats, r.best) => r.best <= j

\* 720p with audio, then two 1080p with audio: the first 1080p is selected.
C6_Witness ==
  /\ SelectApplied
  /\ Len(fnIn.arg) = 3
  /\ fnIn.arg[1] = [QualityLabel |-> <<"7", "2", "0", "p">>, AudioChannels |-> 2]
  /\ fnIn.arg[2] = [QualityLabel |-> <<"1", "0", "8", "0", "p">>, AudioChannels |-> 2]
  /\ fnIn.arg[3] = [QualityLabel |-> <<"1", "0", "8", "0", "p">>, AudioChannels |-> 2]
  /\ fnOut.res = [err |-> FALSE, best |-> 2]

(***************************************************************************)
(* Properties of the worker pool.                                          *)
(***************************************************************************)
\* The playlist branch has passed wg.Wait() and returned.
PoolCompleted == isPlaylist(inputURL) /\ pc = "returned" /\ ret = "nil"

\* The number of items received from the channel so far.
Received == Len(entries) - Len(ch)

\* C2: with one worker or more, under every interleaving, every queued item
\* is received exactly once, by one worker: never twice, never by two, and
\* all of them once the pool has completed.
C2_EachItemDequeuedOnce ==
  (isPlaylist(inputURL) /\ concurrency >= 1) =>
    /\ \A pos \in DOMAIN log :
         /\ Len(log[pos].takenBy) <= 1
         /\ Len(log[pos].takenBy) = 1 <=> pos <= Received
    /\ \A w1, w2 \in WorkerIDs :
         (w1 # w2 /\ witem[w1].pos # 0) => witem[w1].pos # witem[w2].pos
    /\ PoolCompleted => \A pos \in DOMAIN log : Len(log[pos].takenBy) = 1

\* Two workers have shared three items and the pool has completed.
C2_Witness ==
  /\ PoolCompleted
  /\ concurrency = 2
  /\ Len(entries) = 3
  /\ log[1].takenBy = << 1 >>
  /\ log[2].takenBy = << 2 >>
  /\ log[3].takenBy = << 1 >>

\* No worker leaves its loop while an item is queued, and every error that
\* downloadSingleVideo returns is logged once.
WorkersKeepGoing ==
  /\ \A w \in WorkerIDs : wpc[w] = "exited" => ch = <<>>
  /\ \A pos \in DOMAIN log :
       /\ log[pos].reported = log[pos].failed
       /\ log[pos].failed <= log[pos].invoked
       /\ log[pos].invoked <= 1

\* Once the pool has completed, downloadSingleVideo was called once for every
\* item that no skip-existing check caught.
AllItemsInvoked ==
  PoolCompleted =>
    \A pos \in DOMAIN log :
      (entries[pos].ID # ES /\ ~(skipExisting /\ log[pos].regular)) => log[pos].invoked = 1

\* C3: a failure of downloadSingleVideo stops neither its worker nor another
\* one; for every item list with non-empty IDs and no skip-existing hit,
\* whatever items fail, it is called for every item and one failure is
\* reported per failing item.
C3_DispatcherIsolation == WorkersKeepGoing /\ AllItemsInvoked

\* C3 for one worker or more.
C3_IsolationWithWorkers == WorkersKeepGoing /\ (concurrency >= 1 => AllItemsInvoked)

\* Of three items the second failed and was reported; the first and third
\* were downloaded.
C3_Witness ==
  /\ PoolCompleted
  /\ ~skipExisting
  /\ Len(entries) = 3
  /\ log[1].invoked = 1 /\ log[1].failed = 0
  /\ log[2].invoked = 1 /\ log[2].failed = 1 /\ log[2].reported = 1
  /\ log[3].invoked = 1 /\ log[3].failed = 0

\* Every worker has returned and none holds an item.
WorkersReturned ==
  /\ spawned = concurrency
  /\ wg = 0
  /\ \A w \in WorkerIDs : wpc[w] \in {"idle", "exited"} /\ witem[w] = NoItem
  /\ \A w \in 1..spawned : wpc[w] = "exited"

\* C4: the playlist branch returns only with the channel empty, every worker
\* returned and no call of downloadSingleVideo in progress.
C4_CompletionOnlyWhenDrained ==
  PoolCompleted => (ch = <<>> /\ WorkersReturned)

\* C4 for one worker or more.
C4_DrainedWithWorkers ==
  (PoolCompleted /\ concurrency >= 1) => (ch = <<>> /\ WorkersReturned)

\* Two workers have drained three items and the caller has returned.
C4_Witness ==
  /\ PoolCompleted
  /\ concurrency = 2
  /\ Len(entries) = 3
  /\ \A pos \in DOMAIN log : log[pos].invoked = 1

\* C5: for a received item with a non-empty ID, with skip-existing on and a
\* regular file at its destination when the worker checks,
\* downloadSingleVideo is not called; with skip-existing off it is called
\* whether the file exists or not.
C5_SkipExisting ==
  isPlaylist(inputURL) =>
    \A pos \in DOMAIN log :
      log[pos].checked =>
        /\ (skipExisting /\ log[pos].regular) => log[pos].invoked = 0
        /\ ~skipExisting => log[pos].invoked = 1

\* With skip-existing on, the first item's file existed and it was skipped;
\* the third item's did not and it was downloaded.
C5_Witness ==
  /\ PoolCompleted
  /\ skipExisting
  /\ Len(entries) = 3
  /\ log[1].checked /\ log[1].regular /\ log[1].invoked = 0
  /\ log[3].checked /\ ~log[3].regular /\ log[3].invoked = 1

(***************************************************************************)
(* Properties of reruns.                                                   *)
(***************************************************************************)
\* The second run of a single-video download with --skip-existing that
\* started with nothing at <outDir>/output.mp4 has made its check.
SecondSingleRun ==
  /\ ~isPlaylist(inputURL)
  /\ skipExisting
  /\ Len(runs) = 1
  /\ runs[1].log[1].found = "none"
  /\ log # <<>>
  /\ log[1].checked

\* C11 as stated: of the two runs only the first calls downloadSingleVideo
\* (GetVideo, GetStream); the second skips and returns nil.
C11_IdempotentRerun ==
  SecondSingleRun =>
    /\ runs[1].log[1].invoked = 1
    /\ log[1].invoked = 0
    /\ pc = "returned"
    /\ ret = "nil"

\* C11, amended: when the first run got as far as creating the file (it
\* succeeded, or failed in io.Copy), the second run skips without calling
\* downloadSingleVideo and returns nil: one fetch in all.  When the first run
\* failed before os.Create, the second run calls downloadSingleVideo again.
C11_RerunSkipsOnceFileCreated ==
  SecondSingleRun =>
    /\ runs[1].log[1].invoked = 1
    /\ IF runs[1].log[1].created
       THEN /\ runs[1].log[1].invoked + log[1].invoked = 1
            /\ pc = "returned"
            /\ ret = "nil"
       ELSE /\ runs[1].ret = "err"
            /\ log[1].invoked = 1

\* The first run downloaded the video and returned nil; the second has
\* skipped and returned nil, and the file is as the first run left it.
C11_Witness ==
  /\ SecondSingleRun
  /\ runs[1].ret = "nil"
  /\ runs[1].log[1].created
  /\ log[1].invoked = 0
  /\ pc = "returned"
  /\ ret = "nil"
  /\ fs[SingleOutFile(OutputDir)] = "complete"

(***************************************************************************)
(* The pool of one worker.                                                 *)
(***************************************************************************)
\* With one worker the item in hand is the last one received, and every
\* earlier item has been dealt with: items are received in queue order, the
\* next one only after the one before it is finished.
C12_SequentialOrder ==
  (isPlaylist(inputURL) /\ concurrency = 1) =>
    /\ witem[1].pos \in {0, Received}
    /\ \A pos \in DOMAIN log :
         /\ log[pos].takenBy # <<>> <=> pos <= Received
         /\ (pos < Received \/ (pos = Received /\ witem[1].pos = 0)) =>
              /\ log[pos].takenBy = << 1 >>
              /\ log[pos].invoked = 1 =>
                   (log[pos].failed = 1 \/ (log[pos].created /\ log[pos].failed = 0))

OutFileOf(pos) == PlaylistOutFile(OutputDir, PlaylistTitle, entries[pos].Title)

\* What the downloads did, per queue position: whether the file was created
\* and whether the download failed.  An outcome is possible when a download
\* that did not create the file failed.
Outcomes ==
  { o \in [DOMAIN entries -> [created : BOOLEAN, failed : BOOLEAN]] :
      \A pos \in DOMAIN entries : ~o[pos].created => o[pos].failed }

\* The outcomes that agree with what this run's downloads did.
AsLogged(o) ==
  \A pos \in DOMAIN log :
    log[pos].invoked = 1 =>
      (o[pos].created = log[pos].created /\ o[pos].failed = (log[pos].failed = 1))

\* The pool of one worker on this run's input, the downloads behaving as o
\* says: from position pos on, with files at the destinations and the
\* positions downloaded and failed so far.
RECURSIVE OneWorkerFrom(_, _, _, _, _)
OneWorkerFrom(o, pos, files, invoked, failed) ==
  IF pos > Len(entries) THEN [invoked |-> invoked, failed |-> failed]
  ELSE LET p == OutFileOf(pos)
       IN IF entries[pos].ID = ES \/ (skipExisting /\ files[p] \in {"partial", "complete"})
          THEN OneWorkerFrom(o, pos + 1, files, invoked, failed)
          ELSE LET made == o[pos].created /\ files[p] # "dir"
               IN OneWorkerFrom(o, pos + 1,
                    IF made THEN [files EXCEPT ![p] = "complete"] ELSE files,
                    invoked \cup {pos},
                    IF o[pos].failed \/ ~made THEN failed \cup {pos} ELSE failed)

\* The files at the destinations when the items were queued.
FilesBefore ==
  [p \in Paths |->
     IF \E pos \in DOMAIN log : OutFileOf(pos) = p
     THEN log[CHOOSE pos \in DOMAIN log : OutFileOf(pos) = p].before
     ELSE "none"]

OneWorker(o) == OneWorkerFrom(o, 1, FilesBefore, {}, {})

\* What this run did: the positions downloadSingleVideo was called for, and
\* those a failure was reported for.
ThisRun ==
  [invoked |-> { pos \in DOMAIN log : log[pos].invoked = 1 },
   failed |-> { pos \in DOMAIN log : log[pos].reported = 1 }]

\* C12: the pool of one worker is strictly sequential in queue order, and a
\* completed pool of any size has called downloadSingleVideo for the same
\* items, and reported the same failures, as the pool of one worker does on
\* the same input with the downloads behaving the same.
C12_SizeOneSameAsLarger ==
  /\ C12_SequentialOrder
  /\ (PoolCompleted /\ concurrency >= 1) =>
       \E o \in Outcomes : AsLogged(o) /\ OneWorker(o) = ThisRun

\* Two entries have the same destination.
Collides == \E i, j \in DOMAIN entries : i # j /\ OutFileOf(i) = OutFileOf(j)

\* C12 on inputs without two entries of one destination, or without
\* --skip-existing.
C12_SameWithoutCollisions ==
  /\ C12_SequentialOrder
  /\ (PoolCompleted /\ concurrency >= 1 /\ ~(skipExisting /\ Collides)) =>
       \E o \in Outcomes : AsLogged(o) /\ OneWorker(o) = ThisRun

\* One worker has dealt with three items in order: the first downloaded, the
\* second skipped because the first had made its file, the third failed.
C12_Witness ==
  /\ PoolCompleted
  /\ concurrency = 1
  /\ Len(entries) = 3
  /\ log[1].invoked = 1 /\ log[1].created /\ log[1].failed = 0
  /\ log[2].invoked = 0 /\ log[2].checked
  /\ log[3].invoked = 1 /\ log[3].failed = 1

(***************************************************************************)
(* What runDownload returns.                                               *)
(***************************************************************************)
\* The last page request of this run failed.
LastRequestFailed ==
  /\ requests # <<>>
  /\ Len(requests) <= Len(Walk(remote))
  /\ Walk(remote)[Len(requests)].err

\* C13: runDownload returns an error only when GetPlaylist or a page request
\* failed (and then before anything was queued) or, for a single video, when
\* its download failed; on a playlist whose discovery succeeded it returns
\* nil however many downloads failed.
C13_ErrorOnlyFromDiscoveryOrSingle ==
  /\ (pc = "returned" /\ ret = "err") =>
       IF isPlaylist(inputURL)
       THEN /\ requests = <<>> \/ LastRequestFailed
            /\ entries = <<>>
            /\ log = <<>>
       ELSE log[1].invoked = 1 /\ log[1].failed = 1
  /\ (isPlaylist(inputURL) /\ pc = "returned" /\ requests # <<>> /\ ~LastRequestFailed) =>
       ret = "nil"
  /\ (isPlaylist(inputURL) /\ pc \in {"enqueue", "spawn", "wait"}) => ret = "none"

\* The playlist's three downloads all failed, each was reported, and
\* runDownload returned nil.
C13_Witness ==
  /\ PoolCompleted
  /\ Len(entries) = 3
  /\ \A pos \in DOMAIN log :
       log[pos].invoked = 1 /\ log[pos].failed = 1 /\ log[pos].reported = 1

(***************************************************************************)
(* The rank of a label that does not parse.                                *)
(***************************************************************************)
\* strconv.Atoi returns an error for the label without its trailing "p".
Unparsable(label) == Atoi(TrimSuffix(label, "p")).err # "none"

\* C14: a label that does not parse as an integer ranks 0, and a candidate
\* with such a label is not selected when another eligible candidate has a
\* label that parses.
C14_UnparsableRanksZero ==
  SelectApplied =>
    \A i \in DOMAIN fnIn.arg :
      Unparsable(fnIn.arg[i].QualityLabel) =>
        /\ Rank(fnIn.arg, i) = Zero
        /\ (\E j \in Eligible(fnIn.arg) : ~Unparsable(fnIn.arg[j].QualityLabel)) =>
             fnOut.res.best # i

\* C14 for labels that are no digit string (a syntax error of Atoi), against
\* candidates whose label parses to a positive number.
C14_SyntaxErrorRanksZero ==
  SelectApplied =>
    \A i \in DOMAIN fnIn.arg :
      Atoi(TrimSuffix(fnIn.arg[i].QualityLabel, "p")).err = "syntax" =>
        /\ Rank(fnIn.arg, i) = Zero
        /\ (\E j \in Eligible(fnIn.arg) :
              /\ ~Unparsable(fnIn.arg[j].QualityLabel)
              /\ IntGreater(Rank(fnIn.arg, j), Zero)) =>
             fnOut.res.best # i

\* "1080p60" with audio came before "720p" with audio, and "720p" was
\* selected.
C14_Witness ==
  /\ SelectApplied
  /\ Len(fnIn.arg) = 2
  /\ fnIn.arg[1] = [QualityLabel |-> <<"1", "0", "8", "0", "p", "6", "0">>, AudioChannels |-> 2]
  /\ fnIn.arg[2] = [QualityLabel |-> <<"7", "2", "0", "p">>, AudioChannels |-> 2]
  /\ fnOut.res = [err |-> FALSE, best |-> 2]

(***************************************************************************)
(* The size of the pool.                                                   *)
(***************************************************************************)
\* The calls of downloadSingleVideo in progress.
InProgress == { w \in WorkerIDs : wpc[w] \in {"dl", "copy"} }

\* The iterations of for i := 0; i < concurrency; i++.
WorkerCount == IF concurrency > 0 THEN concurrency ELSE 0

\* At most WorkerCount workers are started and so at most that many calls are
\* in progress; past the spawn loop exactly WorkerCount are started, however
\* many items there are; a worker leaves its loop only on the empty queue.
PoolBounded ==
  isPlaylist(inputURL) =>
    /\ spawned <= WorkerCount
    /\ Cardinality(InProgress) <= spawned
    /\ \A w \in WorkerIDs : wpc[w] # "idle" <=> w <= spawned
    /\ wg = Cardinality({ w \in WorkerIDs : wpc[w] \notin {"idle", "exited"} })
    /\ (pc = "wait" \/ PoolCompleted) => spawned = WorkerCount
    /\ \A w \in WorkerIDs : wpc[w] = "exited" => ch = <<>>

\* C15: the pool is bounded as above in every state, and every worker that
\* was started terminates.
C15_BoundedParallelism ==
  /\ []PoolBounded
  /\ \A w \in WorkerIDs : [](wpc[w] # "idle" => <>(wpc[w] = "exited"))

\* Two workers were started for one item; one downloaded it, the other found
\* the queue empty, and both have returned.
C15_Witness ==
  /\ PoolCompleted
  /\ concurrency = 2
  /\ Len(entries) = 1
  /\ spawned = 2
  /\ wpc[1] = "exited" /\ wpc[2] = "exited"
  /\ log[1].invoked = 1

(***************************************************************************)
(* The crawler on a remote that repeats a token.                           *)
(***************************************************************************)
\* The crawl of a playlist is under way or over.
Crawling == isPlaylist(inputURL) /\ requests # <<>>

\* Every response of the walk parses to a non-empty NextPageToken.
KeepsReturningTokens(walk) ==
  \A i \in DOMAIN walk : ~walk[i].err /\ walk[i].paged.NextPageToken # ES

\* C16: on a remote whose last page carries a token it has issued before,
\* as long as every response gives a non-empty NextPageToken,
\* fetchAllPlaylistEntries never returns, with a list or with an error: it
\* sends each token it is given, the repeated one again, and appends the
\* page every time.
C16_NoCycleGuard ==
  (Crawling /\ remote.tail = "loop" /\ KeepsReturningTokens(Walk(remote))) =>
    LET walk == Walk(remote)
    IN /\ pc = "crawl"
       /\ ret = "none"
       /\ entries = <<>>
       /\ Len(walk) = MaxRequests
       /\ requests = ExpectedTokens(walk, Len(requests))
       /\ all = ConcatEntries(SubSeq(walk, 1, Len(requests)))
       /\ pageToken = walk[Len(requests)].paged.NextPageToken
       /\ pageToken # ES

\* The one-page playlist whose page carries its own token: the token was sent
\* twice and the page's entry is in the accumulator three times.
C16_Witness ==
  /\ Crawling
  /\ remote.tail = "loop"
  /\ Len(remote.pages) = 1
  /\ requests = << ES, Tok(1), Tok(1) >>
  /\ pageToken = Tok(1)
  /\ Len(all) = 3
  /\ all[1] = all[2] /\ all[2] = all[3]
  /\ pc = "crawl"

(***************************************************************************)
(* Which shape parsePlaylistJSON reads.                                    *)
(***************************************************************************)
\* The playlist entries of a contents list: those with a videoId, in order.
RECURSIVE KeptOf(_)
KeptOf(contents) ==
  IF contents = <<>> THEN <<>>
  ELSE IF VideoID(Head(contents)) = ES THEN KeptOf(Tail(contents))
       ELSE << [ID |-> VideoID(Head(contents)), Title |-> SimpleText(Head(contents))] >>
            \o KeptOf(Tail(contents))

\* The continuations of a video list.
TokensOf(list) ==
  [c \in DOMAIN Slice(list.Continuations) |-> Continuation(Slice(list.Continuations)[c])]

\* The non-empty continuations of the first-page shape.
FirstPageTokens(root) ==
  UNION { { TokensOf(DocBlocks(root)[b])[c] : c \in DOMAIN TokensOf(DocBlocks(root)[b]) } :
            b \in DOMAIN DocBlocks(root) } \ {ES}

\* C17: when the continuation shape's contents list is not empty, the page
\* is that list's entries and first non-empty continuation, whatever the
\* first-page shape holds; when it is empty, the page is read from the
\* first-page shape alone, so a continuation response with no contents and
\* a continuation gives an empty NextPageToken, on which
\* fetchAllPlaylistEntries stops.
C17_ShapeDetection ==
  (ParseApplied /\ ~fnOut.res.err) =>
    LET root == Unmarshal(fnIn.arg)
        cc == ContinuationList(root)
        paged == fnOut.res.paged
    IN IF Slice(cc.Contents) # <<>>
       THEN /\ paged.Entries = KeptOf(Slice(cc.Contents))
            /\ paged.NextPageToken = FirstNonEmpty(TokensOf(cc))
       ELSE /\ paged.Entries =
                 KeptOf(Flatten([b \in DOMAIN DocBlocks(root) |->
                                   Slice(DocBlocks(root)[b].Contents)]))
            /\ IF FirstPageTokens(root) = {} THEN paged.NextPageToken = ES
               ELSE paged.NextPageToken \in FirstPageTokens(root)
            /\ DocBlocks(root) = <<>> =>
                 /\ paged = ZeroPaged
                 /\ fetchAllIteration(<<>>, T1, fnOut.res).state = "return"

\* A continuation response with no contents and the continuation T2 was
\* parsed to the empty page.
C17_Witness ==
  /\ ParseApplied
  /\ fnIn.arg = ContinuationJSON(VideoListJSON(<<>>, << ContJSON(T2) >>))
  /\ fnOut.res = [err |-> FALSE, paged |-> ZeroPaged]

(***************************************************************************)
(* Two items of one destination.                                           *)
(***************************************************************************)
\* The worker is in downloadSingleVideo for the item it holds.
Downloading(w) == wpc[w] \in {"dl", "copy"}

\* The destination of the item worker w holds.
HeldOutFile(w) == PlaylistOutFile(OutputDir, PlaylistTitle, witem[w].Title)

\* C18: with --skip-existing, a worker is in downloadSingleVideo only for an
\* item whose check found no regular file, whatever is at the destination by
\* now; nothing else keeps a second worker from the same destination, so two
\* workers that are both downloading to one path have both passed the check
\* before either created the file.
C18_CheckAndCreateNotAtomic ==
  (isPlaylist(inputURL) /\ skipExisting) =>
    /\ \A w \in WorkerIDs :
         Downloading(w) =>
           /\ log[witem[w].pos].checked
           /\ log[witem[w].pos].found \in {"none", "dir"}
           /\ log[witem[w].pos].invoked = 1
    /\ \A w1, w2 \in WorkerIDs :
         (w1 # w2 /\ Downloading(w1) /\ Downloading(w2)
            /\ HeldOutFile(w1) = HeldOutFile(w2)) =>
           /\ witem[w1].pos # witem[w2].pos
           /\ log[witem[w1].pos].found = log[witem[w1].pos].before
           /\ log[witem[w2].pos].found = log[witem[w2].pos].before

\* With --skip-existing and nothing at the destination beforehand, two
\* workers hold the two items of one destination, both after the check and
\* os.Create, both writing the same file.
C18_Witness ==
  /\ isPlaylist(inputURL)
  /\ skipExisting
  /\ concurrency = 2
  /\ wpc[1] = "copy" /\ wpc[2] = "copy"
  /\ witem[1].pos = 1 /\ witem[2].pos = 2
  /\ HeldOutFile(1) = HeldOutFile(2)
  /\ log[1].before = "none" /\ log[2].before = "none"
  /\ log[1].invoked = 1 /\ log[2].invoked = 1
  /\ log[1].created /\ log[2].created
  /\ fs[HeldOutFile(1)] = "partial"

(***************************************************************************)
(* A worker count that is not positive.                                    *)
(***************************************************************************)
\* The pool part of runDownload has been entered: the channel is filled.
PoolEntered == pc \in {"spawn", "wait"} \/ (pc = "returned" /\ ret = "nil")

\* C19: --concurrency is used as given.  With a value of 0 or less the spawn
\* loop starts no goroutine and adds nothing to the WaitGroup, so wg.Wait()
\* returns at once and runDownload returns nil, with every queued item still
\* in the channel, taken by nobody, checked by nobody, downloadSingleVideo
\* invoked for none, and the files as they were.
C19_NoWorkerWhenNotPositive ==
  (isPlaylist(inputURL) /\ concurrency <= 0) =>
    /\ spawned = 0
    /\ wg = 0
    /\ \A w \in WorkerIDs : wpc[w] = "idle"
    /\ pc = "wait" => WaitReturns(wg)
    /\ pc = "returned" => ret \in {"nil", "err"}
    /\ (pc = "returned" /\ ret = "err") => (entries = <<>> /\ log = <<>>)
    /\ PoolEntered =>
         /\ ch = entries
         /\ Len(log) = Len(entries)
         /\ \A i \in DOMAIN log :
              /\ log[i].takenBy = <<>>
              /\ ~log[i].checked
              /\ log[i].invoked = 0
              /\ fs[OutFileOf(i)] = log[i].before

\* --concurrency 0 on a playlist of three items: runDownload has returned nil,
\* the three items are still queued and none was handed to a worker.
C19_Witness ==
  /\ isPlaylist(inputURL)
  /\ concurrency = 0
  /\ pc = "returned"
  /\ ret = "nil"
  /\ Len(entries) = 3
  /\ ch = entries
  /\ \A i \in DOMAIN log : log[i].invoked = 0 /\ log[i].takenBy = <<>>
  /\ \A w \in WorkerIDs : wpc[w] = "idle"

(***************************************************************************)
(* A failed download and the run after it.                                 *)
(***************************************************************************)
\* The destination of the item at position i of earlier run k.
RunOutFile(k, i) ==
  IF isPlaylist(inputURL)
  THEN PlaylistOutFile(OutputDir, PlaylistTitle, runs[k].entries[i].Title)
  ELSE SingleOutFile(OutputDir)

\* The log of the run that followed earlier run k.
RunAfter(k) == IF k < Len(runs) THEN runs[k + 1].log ELSE log

\* C20: a download that failed is reported.  When it failed in io.Copy, after
\* os.Create, the partial file stays: with --skip-existing every later run
\* finds a regular file there and skips the item without calling
\* downloadSingleVideo, and the file remains partial.  When it failed before
\* os.Create, the destination is as it was, and the next run calls
\* downloadSingleVideo for the item again.
C20_PartialFileIsSkipped ==
  \A k \in DOMAIN runs :
    \A i \in DOMAIN runs[k].log :
      LET prev == runs[k].log[i]
          nxt == RunAfter(k)
      IN prev.failed > 0 =>
           /\ prev.invoked = 1
           /\ prev.failed = 1
           /\ prev.reported = 1
           /\ ~isPlaylist(inputURL) => runs[k].ret = "err"
           /\ (prev.created /\ skipExisting) =>
                /\ fs[RunOutFile(k, i)] = "partial"
                /\ (i \in DOMAIN nxt /\ nxt[i].checked) =>
                     /\ nxt[i].found = "partial"
                     /\ nxt[i].regular
                     /\ nxt[i].invoked = 0
                     /\ ~nxt[i].created
           /\ ~prev.created =>
                /\ skipExisting => prev.found \in {"none", "dir"}
                /\ (i \in DOMAIN nxt /\ nxt[i].checked) =>
                     /\ nxt[i].found = prev.found
                     /\ nxt[i].invoked = 1

\* Two runs with --skip-existing on a playlist of two items, nothing there
\* beforehand.  In the first run the first item failed in io.Copy and the
\* second failed before os.Create.  The second run has returned: it skipped
\* the first item, whose file is still partial, and called
\* downloadSingleVideo for the second.
C20_Witness ==
  /\ isPlaylist(inputURL)
  /\ skipExisting
  /\ Len(runs) = 1
  /\ Len(runs[1].log) = 2
  /\ runs[1].log[1].found = "none"
  /\ runs[1].log[1].created
  /\ runs[1].log[1].failed = 1
  /\ runs[1].log[2].found = "none"
  /\ ~runs[1].log[2].created
  /\ runs[1].log[2].failed = 1
  /\ pc = "returned"
  /\ Len(log) = 2
  /\ log[1].found = "partial"
  /\ log[1].invoked = 0
  /\ log[2].invoked = 1
  /\ fs[RunOutFile(1, 1)] = "partial"

====
